---- MODULE Spec2Model ----
(***************************************************************************)
(* A model of the knowledge ingestion script (scripts/embed.mjs) and of    *)
(* the timeline utilities of the chat route (src/app/api/chat/route.ts).   *)
(*                                                                         *)
(* Texts are sequences of characters over a two-letter alphabet.  The      *)
(* settings are part of the state and are drawn at Init from small ranges: *)
(* the shipped values (window 1000, overlap 200, batch 50, minimum text    *)
(* length 50) are one instance of the same relations.                      *)
(*                                                                         *)
(* Spec       run() invoked by one operator, again after each run ended    *)
(* SpecConc   two executions of the script at once                         *)
(* SpecConfig one execution under any settings, overlap >= window included *)
(* SpecPure   chunkText, the de-duplication step, calculateWorkingDays and *)
(*            calculateTimelineBreaches applied to bounded inputs          *)
(***************************************************************************)
EXTENDS Integers, Sequences, FiniteSets, TLC

VARIABLES
    cfg,        \* the settings: CHUNK_SIZE, CHUNK_OVERLAP, BATCH_SIZE, minimum text length
    pdfEnabled, \* module-level flag set when the PDF backend loads
    srcs,       \* srcs[r]: the source list of run r
    store,      \* the "documents" table: a sequence of rows
    runs,       \* runs[r]: the local state of one execution of run()
    hist,       \* history: what each run requested and wrote, and the store when it ended
    arg,        \* input of the pure function under check
    ret,        \* its result
    search,     \* the local state of one call of searchLegalKnowledge
    chat        \* the chat component: its flags, its messages, the request under way

vars == <<cfg, pdfEnabled, srcs, store, runs, hist, arg, ret, search, chat>>

(* ------------------------------ bounds -------------------------------- *)
MaxChunkSize == 3
MaxBatchSize == 2
MaxMinLen == 2
MaxTextLen == 6
MaxSpin == 2
MaxRuns == 2
MaxChunks == 4
MaxSpan == 15
MaxElapsed == 30
TodayWindow == 3
TodSlots == 2
MaxId == 10
MaxLimit == 3
MaxDocs == 2
MaxSends == 3

Alphabet == {"a", "b"}
Runs == {1, 2}
NoArg == [fn |-> "none"]
NoRet == [done |-> FALSE, value |-> <<>>]
SeqSet(q) == {q[j] : j \in 1..Len(q)}

\* no call of searchLegalKnowledge under way
IdleSearch ==
    [pc |-> "idle", text |-> <<>>, limit |-> 0, results |-> <<>>,
     crossReferenceSearches |-> <<>>, fulfilled |-> 0, j |-> 0, returned |-> <<>>,
     log |-> <<>>, firstHits |-> {}, dropped |-> {}, storeErrors |-> {}]

\* no message sent yet: useState(false) twice, useState([]) for the messages
IdleChat ==
    [pc |-> "idle", isStreaming |-> FALSE, isSending |-> FALSE, messages |-> <<>>,
     request |-> <<>>, holderIndex |-> 0, stream |-> <<>>, sends |-> 0]

Min(a, b) == IF a < b THEN a ELSE b
Max(a, b) == IF a > b THEN a ELSE b

\* const x = v; then the code that uses x
With(v, Then(_)) == Then(v)

(* ------------------------------ sources ------------------------------- *)
Urls == {"u1", "u2", "u3.pdf", "u4.pdf"}

\* src.toLowerCase().endsWith(".pdf")
IsPdf(u) == u \in {"u3.pdf", "u4.pdf"}

\* The normalized text each source yields when its fetch and extraction succeed.
Page(u) ==
    CASE u = "u1" -> <<"a", "a", "a", "a", "a">>
      [] u = "u2" -> <<"a", "a", "a", "b">>
      [] u = "u3.pdf" -> <<"b", "a", "b">>
      [] u = "u4.pdf" -> <<"b", "a">>

SourceLists ==
    {<<"u1", "u2">>, <<"u2", "u3.pdf">>, <<"u3.pdf", "u1", "u2">>, <<"u3.pdf", "u4.pdf", "u2">>}

\* the lists of two executions at once: overlapping in u2
ConcurrentLists == {l \in SourceLists : Len(l) <= 2}

(* ------------------------------ settings ------------------------------ *)
AllSettings ==
    [size : 1..MaxChunkSize, overlap : 0..MaxChunkSize,
     batch : 1..MaxBatchSize, minLen : 1..MaxMinLen]

\* The shipped settings satisfy CHUNK_OVERLAP < CHUNK_SIZE.
Settings == {s \in AllSettings : s.overlap < s.size}

\* The settings the pipeline is run under: the largest window, batch and minimum
\* length of the ranges, with every overlap below the window.
PipelineSettings ==
    {s \in Settings : s.size = MaxChunkSize /\ s.batch = MaxBatchSize /\ s.minLen = MaxMinLen}

(* ------------------------------ helpers ------------------------------- *)
\* String.prototype.slice / Array.prototype.slice on 0-based offsets:
\* negative offsets count from the end, offsets are clamped to the length.
jsSlice(s, a, b) ==
    LET n == Len(s)
        from == IF a < 0 THEN Max(n + a, 0) ELSE Min(a, n)
        to == IF b < 0 THEN Max(n + b, 0) ELSE Min(b, n)
    IN  IF to <= from THEN <<>> ELSE SubSeq(s, from + 1, to)

RECURSIVE chunkFrom(_, _, _, _)
chunkFrom(text, i, size, overlap) ==
    IF i < Len(text)
    THEN <<jsSlice(text, i, i + size)>> \o chunkFrom(text, i + (size - overlap), size, overlap)
    ELSE <<>>

\* chunkText emitting full windows only: a text shorter than the window gives nothing
chunkTextFullWindowsOnly(text, size, overlap) ==
    IF Len(text) < size THEN <<>> ELSE chunkFrom(text, 0, size, overlap)

\* chunkText advancing by the whole window, the overlap ignored
chunkTextNoOverlap(text, size, overlap) == chunkFrom(text, 0, size, 0)

\* the for loop of chunkText, for settings under which it advances
chunkText(text, size, overlap) == chunkFrom(text, 0, size, overlap)

Contents(chunks) == [j \in 1..Len(chunks) |-> chunks[j].content]

\* mapSet moving a key that is set again to the end of the map
mapSetMoveToEnd(m, chunk) ==
    LET Other(x) == x.content # chunk.content
    IN  Append(SelectSeq(m, Other), chunk)

\* Map.prototype.set on a map kept as its sequence of entries in insertion order:
\* an existing key keeps its position and takes the new value, a new key is appended.
mapSet(m, chunk) ==
    IF \E j \in 1..Len(m) : m[j].content = chunk.content
    THEN [j \in 1..Len(m) |-> IF m[j].content = chunk.content THEN chunk ELSE m[j]]
    ELSE Append(m, chunk)

RECURSIVE dedupeInto(_, _)
dedupeInto(m, chunks) ==
    IF chunks = <<>> THEN m ELSE dedupeInto(mapSet(m, Head(chunks)), Tail(chunks))

\* dedupe keyed on the source together with the content: one pass per source
RECURSIVE dedupeWithinSource(_)
dedupeWithinSource(chunks) ==
    IF chunks = <<>>
    THEN <<>>
    ELSE LET n == Len(chunks)
             before == dedupeWithinSource(SubSeq(chunks, 1, n - 1))
         IN  IF \E j \in 1..(n - 1) : chunks[j] = chunks[n] THEN before ELSE Append(before, chunks[n])

\* chunkMap = new Map(); allChunks.forEach(set); Array.from(chunkMap.values())
dedupe(chunks) == dedupeInto(<<>>, chunks)

\* the embedding the provider returns for one input string, in call `call`
Embedding(content, call) == [of |-> content, call |-> call]

\* Rows pairing the chunks of the batch with the embeddings in reverse order
RowsReversed(batch, emb) ==
    [j \in 1..Len(batch) |->
        [content |-> batch[j].content, embedding |-> emb[Len(batch) + 1 - j],
         source |-> batch[j].source]]

\* rows = batch.map((b, j) => ({content, embedding: emb.data[j].embedding, metadata}))
Rows(batch, emb) ==
    [j \in 1..Len(batch) |->
        [content |-> batch[j].content, embedding |-> emb[j], source |-> batch[j].source]]

\* upsertRow with the conflict key on the source instead of the content
upsertRowBySource(table, row) ==
    IF \E j \in 1..Len(table) : table[j].source = row.source
    THEN [j \in 1..Len(table) |-> IF table[j].source = row.source THEN row ELSE table[j]]
    ELSE Append(table, row)

\* one row under INSERT ... ON CONFLICT (content) DO UPDATE
upsertRow(table, row) ==
    IF \E j \in 1..Len(table) : table[j].content = row.content
    THEN [j \in 1..Len(table) |-> IF table[j].content = row.content THEN row ELSE table[j]]
    ELSE Append(table, row)

RECURSIVE upsertRows(_, _)
upsertRows(table, rows) ==
    IF rows = <<>> THEN table ELSE upsertRows(upsertRow(table, Head(rows)), Tail(rows))

\* upsert as a plain insert, without the conflict clause
upsertInsertOnly(table, rows) == table \o rows

\* supabase.from("documents").upsert(rows, { onConflict: 'content' })
upsert(table, rows) == upsertRows(table, rows)

(* ------------------------------ run() --------------------------------- *)
IdleRun ==
    [pc |-> "idle", n |-> 0, k |-> 1, allChunks |-> <<>>, uniqueChunks |-> <<>>,
     i |-> 0, emb |-> <<>>, loopI |-> 0, spins |-> 0, log |-> <<>>]

\* what one invocation of run() did, and how the invocation before it ended
NoHist ==
    [fetched |-> {}, requested |-> {}, written |-> {}, failedBatches |-> {},
     failedSources |-> {}, upsertCalls |-> {}, failures |-> 0,
     prev |-> [ended |-> FALSE, store |-> <<>>, clean |-> FALSE]]

Step(r, f) == runs' = [runs EXCEPT ![r] = f]
Note(r, h) == hist' = [hist EXCEPT ![r] = h]

\* run() is called: console.log("[embed] starting"), allChunks = []
Start(r) ==
    /\ \/ runs[r].pc = "idle"
       \/ runs[r].pc = "done" /\ runs[r].n < MaxRuns
    /\ Step(r, [IdleRun EXCEPT !.pc = "fetch", !.n = runs[r].n + 1])
    /\ Note(r, [NoHist EXCEPT !.prev =
                    IF runs[r].pc = "done"
                    THEN [ended |-> TRUE, store |-> store,
                          clean |-> hist[r].failures = 0 /\
                                    (hist[r].prev.ended => hist[r].prev.clean)]
                    ELSE @])
    /\ UNCHANGED <<cfg, pdfEnabled, srcs, store, arg, ret, search, chat>>

\* chunks.forEach((c) => allChunks.push({ source: src, content: c }))
Tagged(u, chunks) == [j \in 1..Len(chunks) |-> [source |-> u, content |-> chunks[j]]]

\* caught, with the failure ending the run instead of the iteration
caughtAbort(me, u, o) == [me EXCEPT !.pc = "done", !.log = Append(@, <<"failed", u, o>>)]

\* catch (e) in the source loop: console.error("failed", src), then the next source
caught(me, u, o) == [me EXCEPT !.k = @ + 1, !.log = Append(@, <<"failed", u, o>>)]

\* embedFailed with `break` in place of `continue`
embedFailedBreak(me) ==
    [me EXCEPT !.i = Len(me.uniqueChunks), !.log = Append(@, <<"embedding error", me.i>>)]

\* catch (e) around embeddings.create: console.error, then `continue` to the next batch
embedFailed(me) ==
    [me EXCEPT !.i = @ + cfg.batch, !.log = Append(@, <<"embedding error", me.i>>)]

\* fetchTextFromPdf returns "" without a fetch when the PDF backend is unavailable
PdfSkipped(u) == IsPdf(u) /\ (~pdfEnabled)

\* fetchTextFromHtml / fetchTextFromPdf throw on a non-2xx status or an extraction error
Throws(u, o) == (~PdfSkipped(u)) /\ o \in {"http_error", "extract_error"}

\* await fetch(url, { redirect: "follow" }) and await res.text() are given no signal
\* and no deadline: a server that keeps the response open without ever ending it
\* leaves the awaited promise pending
Pending(u, o) == (~PdfSkipped(u)) /\ o = "never_settles"

\* the text they return otherwise
Fetched(u) == IF PdfSkipped(u) THEN <<>> ELSE Page(u)

\* console.warn of fetchTextFromPdf without a backend, then the warning of run()
\* for an empty or very short text
SkipLog(u) ==
    (IF PdfSkipped(u) THEN <<<<"skip PDF; pdf backend unavailable", u>>>> ELSE <<>>)
    \o <<<<"skip: very short or empty", u>>>>

\* One iteration of `for (const src of sources)`: fetch, extract, chunk, or catch.
FetchSource(r) ==
    /\ runs[r].pc = "fetch"
    /\ runs[r].k <= Len(srcs[r])
    /\ \E o \in {"ok", "http_error", "extract_error", "never_settles"} :
        LET u == srcs[r][runs[r].k]
            text == Fetched(u)
            me == runs[r]
            h == [hist[r] EXCEPT !.fetched = IF PdfSkipped(u) THEN @ ELSE @ \cup {u}]
        IN  IF Throws(u, o)
            THEN \* catch (e): console.error("failed", src)
                 /\ Step(r, caught(me, u, o))
                 /\ Note(r, [h EXCEPT !.failedSources = @ \cup {u}, !.failures = 1])
            ELSE IF Pending(u, o)
            THEN \* run() stays suspended in its await
                 /\ Step(r, [me EXCEPT !.pc = "awaiting"])
                 /\ Note(r, h)
            ELSE /\ o = "ok"
                 /\ IF Len(text) < cfg.minLen
                    THEN \* skip: very short or empty
                         /\ Step(r, [me EXCEPT !.k = @ + 1, !.log = @ \o SkipLog(u)])
                         /\ Note(r, h)
                    ELSE IF cfg.overlap < cfg.size
                    THEN /\ Step(r, [me EXCEPT !.k = @ + 1, !.allChunks =
                                        @ \o Tagged(u, chunkText(text, cfg.size, cfg.overlap))])
                         /\ Note(r, h)
                    ELSE \* the window of chunkText does not advance
                         /\ Step(r, [me EXCEPT !.pc = "chunkLoop", !.loopI = 0, !.spins = 0])
                         /\ Note(r, h)
    /\ UNCHANGED <<cfg, pdfEnabled, srcs, store, arg, ret, search, chat>>

\* One iteration of the for loop of chunkText when CHUNK_SIZE - CHUNK_OVERLAP <= 0:
\* i < text.length stays true, a chunk is pushed and i does not grow.
ChunkLoopIter(r) ==
    /\ runs[r].pc = "chunkLoop"
    /\ runs[r].spins < MaxSpin
    /\ LET me == runs[r]
           u == srcs[r][me.k]
       IN  /\ me.loopI < Len(Page(u))
           /\ Step(r, [me EXCEPT !.loopI = @ + (cfg.size - cfg.overlap),
                                 !.spins = @ + 1])
    /\ UNCHANGED <<cfg, pdfEnabled, srcs, store, hist, arg, ret, search, chat>>

\* After the source loop: the early return on no chunks, else the de-duplication step.
Dedupe(r) ==
    /\ runs[r].pc = "fetch"
    /\ runs[r].k > Len(srcs[r])
    /\ IF Len(runs[r].allChunks) = 0
       THEN /\ Step(r, [runs[r] EXCEPT !.pc = "done", !.log = Append(@, <<"no chunks">>)])
            /\ UNCHANGED hist
       ELSE /\ Step(r, [runs[r] EXCEPT !.pc = "embed", !.i = 0,
                                       !.uniqueChunks = dedupe(runs[r].allChunks)])
            /\ UNCHANGED hist
    /\ UNCHANGED <<cfg, pdfEnabled, srcs, store, arg, ret, search, chat>>

Batch(r) == jsSlice(runs[r].uniqueChunks, runs[r].i, runs[r].i + cfg.batch)

\* openai.embeddings.create for the batch at offset i: the response, or the catch and continue
Embed(r) ==
    /\ runs[r].pc = "embed"
    /\ runs[r].i < Len(runs[r].uniqueChunks)
    /\ LET batch == Batch(r)
           inputs == {batch[j].content : j \in 1..Len(batch)}
           h == [hist[r] EXCEPT !.requested = @ \cup inputs]
       IN  \/ /\ Step(r, [runs[r] EXCEPT !.pc = "upsert",
                             !.emb = [j \in 1..Len(batch) |-> Embedding(batch[j].content, r)]])
              /\ Note(r, h)
           \/ /\ Step(r, embedFailed(runs[r]))
              /\ Note(r, [h EXCEPT !.failedBatches = @ \cup {runs[r].i}, !.failures = 1])
    /\ UNCHANGED <<cfg, pdfEnabled, srcs, store, arg, ret, search, chat>>

\* supabase upsert of the batch's rows: stored, or { error } returned and logged
Upsert(r) ==
    /\ runs[r].pc = "upsert"
    /\ LET batch == Batch(r)
           rows == Rows(batch, runs[r].emb)
           next == [runs[r] EXCEPT !.pc = "embed", !.i = @ + cfg.batch, !.emb = <<>>]
           h == [hist[r] EXCEPT !.upsertCalls = @ \cup {runs[r].i}]
       IN  \/ /\ store' = upsert(store, rows)
              /\ Step(r, [next EXCEPT !.log = Append(@, <<"stored", runs[r].i>>)])
              /\ Note(r, [h EXCEPT !.written = @ \cup {rows[j].content : j \in 1..Len(rows)}])
           \/ /\ store' = store
              /\ Step(r, [next EXCEPT !.log = Append(@, <<"upsert error", runs[r].i>>)])
              /\ Note(r, [h EXCEPT !.failures = 1])
    /\ UNCHANGED <<cfg, pdfEnabled, srcs, arg, ret, search, chat>>

\* the batch loop is over: the closing success line
Finish(r) ==
    /\ runs[r].pc = "embed"
    /\ runs[r].i >= Len(runs[r].uniqueChunks)
    /\ Step(r, [runs[r] EXCEPT !.pc = "done", !.log = Append(@, <<"success">>)])
    /\ UNCHANGED <<cfg, pdfEnabled, srcs, store, hist, arg, ret, search, chat>>

InitRuns ==
    /\ pdfEnabled \in BOOLEAN
    /\ store = <<>>
    /\ runs = [r \in Runs |-> IdleRun]
    /\ hist = [r \in Runs |-> NoHist]
    /\ arg = NoArg
    /\ ret = NoRet
    /\ search = IdleSearch
    /\ chat = IdleChat

RunStep(r) ==
    \/ Start(r)
    \/ FetchSource(r)
    \/ Dedupe(r)
    \/ Embed(r)
    \/ Upsert(r)
    \/ Finish(r)

\* run() invoked again and again by one operator, each invocation after the last ended
Init ==
    /\ cfg \in PipelineSettings
    /\ \E l \in SourceLists : srcs = [r \in Runs |-> l]
    /\ InitRuns

Next == RunStep(1)

Spec == Init /\ [][Next]_vars

\* the runs whose progress is followed: the settings with an overlap of at most one
InitLive ==
    /\ cfg \in {s \in PipelineSettings : s.overlap <= 1}
    /\ \E l \in SourceLists : srcs = [r \in Runs |-> l]
    /\ InitRuns

\* the same steps, the event loop resuming run() whenever the call it awaits has settled
SpecLive == InitLive /\ [][Next]_vars /\ WF_vars(Next)

\* two executions of the script at once, each started once, over overlapping source lists
InitConc ==
    /\ cfg \in PipelineSettings
    /\ srcs \in [Runs -> ConcurrentLists]
    /\ InitRuns

StartOnce(r) == runs[r].pc = "idle" /\ Start(r)

NextConc ==
    \E r \in Runs :
        \/ StartOnce(r)
        \/ FetchSource(r)
        \/ Dedupe(r)
        \/ Embed(r)
        \/ Upsert(r)
        \/ Finish(r)

SpecConc == InitConc /\ [][NextConc]_vars

(* ------------------------- timeline utilities -------------------------- *)
\* A Date is an instant: a day number since 1970-01-01 and a time of day, in one of
\* TodSlots slots.  The process runs in UTC, so local days are UTC days.
EnforcementDay == 20388

\* Date.prototype.getTime, in slots
Time(d) == d.day * TodSlots + d.tod

\* Date.prototype.getDay: 0 = Sunday, 6 = Saturday; 1970-01-01 was a Thursday
getDay(d) == (d.day + 4) % 7

\* the while loop of calculateWorkingDays from currentDate on
RECURSIVE workingDaysFrom(_, _)
workingDaysFrom(currentDate, endDate) ==
    IF Time(currentDate) <= Time(endDate)
    THEN (IF getDay(currentDate) # 0 /\ getDay(currentDate) # 6 THEN 1 ELSE 0)
         + workingDaysFrom([currentDate EXCEPT !.day = @ + 1], endDate)
    ELSE 0

\* the working days between the two dates, whichever of them is the earlier
calculateWorkingDaysEitherWay(startDate, endDate) ==
    IF Time(startDate) <= Time(endDate)
    THEN workingDaysFrom(startDate, endDate)
    ELSE workingDaysFrom(endDate, startDate)

calculateWorkingDays(startDate, endDate) == workingDaysFrom(startDate, endDate)

\* new Date('2025-10-27'): midnight UTC
awaabsLawEnforcementDate == [day |-> EnforcementDay, tod |-> 0]

\* the hazard law taken to be in force whatever the date
hazardLawInForceAlways(today) == TRUE

\* today >= awaabsLawEnforcementDate; its negation is today < awaabsLawEnforcementDate
hazardLawInForce(today) == Time(today) >= Time(awaabsLawEnforcementDate)

\* the acknowledgment rule with its bound included
ackOverdueFromFive(workingDaysElapsed) == workingDaysElapsed >= 5

\* if (workingDaysElapsed > 5)
ackOverdue(workingDaysElapsed) == workingDaysElapsed > 5

\* the response rule firing from 10 working days on
responseOverdueFromTen(workingDaysElapsed) == workingDaysElapsed >= 10

\* if (workingDaysElapsed > 10)
responseOverdue(workingDaysElapsed) == workingDaysElapsed > 10

Breach(regulation, requirement, elapsed, unit, breached, severity) ==
    [regulation |-> regulation, requirement |-> requirement, elapsed |-> elapsed,
     unit |-> unit, breached |-> breached, severity |-> severity]

Ombudsman == "Housing Ombudsman Code Section 4.2"
AwaabsLaw == "Social Housing Regulation Act 2023 (Awaab's Law)"
Section11 == "Section 11 of the Landlord and Tenant Act 1985"
AckRequirement == "acknowledge complaint within 5 working days"
ResponseRequirement == "provide full response within 10 working days"
InvestigateRequirement == "investigate damp and mould affecting children within 14 days"
InvestigateRequirementImpending ==
    "investigate damp and mould affecting children within 14 days (effective from October 27, 2025)"
HeatingRequirement == "complete emergency heating repairs within 24 hours"
RepairRequirement ==
    "complete non-emergency repairs within reasonable time (typically 28 days)"

\* calculateTimelineBreaches, with `today` = new Date() passed in
calculateTimelineBreaches(reportedDate, issueType, childrenAffected, today) ==
    LET workingDaysElapsed == calculateWorkingDays(reportedDate, today)
        calendarDaysElapsed == (Time(today) - Time(reportedDate)) \div TodSlots
        enforced == hazardLawInForce(today)
        b1 == IF ackOverdue(workingDaysElapsed)
              THEN <<Breach(Ombudsman, AckRequirement, workingDaysElapsed,
                            "working days", TRUE, "moderate")>>
              ELSE <<>>
        b2 == IF responseOverdue(workingDaysElapsed)
              THEN <<Breach(Ombudsman, ResponseRequirement, workingDaysElapsed,
                            "working days", TRUE, "serious")>>
              ELSE <<>>
        b3 == IF issueType = "damp_mould" /\ childrenAffected
                 /\ calendarDaysElapsed > 14 /\ enforced
              THEN <<Breach(AwaabsLaw, InvestigateRequirement, calendarDaysElapsed,
                            "calendar days", TRUE, "critical")>>
              ELSE IF issueType = "damp_mould" /\ childrenAffected /\ ~enforced
              THEN <<Breach(AwaabsLaw, InvestigateRequirementImpending, calendarDaysElapsed,
                            "calendar days", FALSE, "impending")>>
              ELSE <<>>
        b4 == IF issueType = "heating" /\ calendarDaysElapsed > 1
              THEN <<Breach(Section11, HeatingRequirement, calendarDaysElapsed,
                            "calendar days", TRUE, "serious")>>
              ELSE <<>>
        b5 == IF issueType = "repairs" /\ calendarDaysElapsed > 28
              THEN <<Breach(Section11, RepairRequirement, calendarDaysElapsed,
                            "calendar days", TRUE, "moderate")>>
              ELSE <<>>
        breaches == b1 \o b2 \o b3 \o b4 \o b5
    IN  [reportedDate |-> reportedDate,
         workingDaysElapsed |-> workingDaysElapsed,
         calendarDaysElapsed |-> calendarDaysElapsed,
         breaches |-> breaches,
         hasBreaches |-> Len(breaches) > 0]

(* ------------------------------ strings -------------------------------- *)
\* A string is the sequence of its characters.
\* String.prototype.includes
includes(text, pat) ==
    \E p \in 1..(Len(text) - Len(pat) + 1) : SubSeq(text, p, p + Len(pat) - 1) = pat

\* the words the route looks for in the lowercased conversation and in a date string
kw ==
    [damp |-> <<"d", "a", "m", "p">>,
     mould |-> <<"m", "o", "u", "l", "d">>,
     mold |-> <<"m", "o", "l", "d">>,
     condensation |-> <<"c", "o", "n", "d", "e", "n", "s", "a", "t", "i", "o", "n">>,
     baby |-> <<"b", "a", "b", "y">>,
     child |-> <<"c", "h", "i", "l", "d">>,
     repair |-> <<"r", "e", "p", "a", "i", "r">>,
     maintenance |-> <<"m", "a", "i", "n", "t", "e", "n", "a", "n", "c", "e">>,
     broken |-> <<"b", "r", "o", "k", "e", "n">>,
     heating |-> <<"h", "e", "a", "t", "i", "n", "g">>,
     boiler |-> <<"b", "o", "i", "l", "e", "r">>,
     cold |-> <<"c", "o", "l", "d">>,
     noise |-> <<"n", "o", "i", "s", "e">>,
     antisocial |-> <<"a", "n", "t", "i", "s", "o", "c", "i", "a", "l">>,
     neighbour |-> <<"n", "e", "i", "g", "h", "b", "o", "u", "r">>,
     leak |-> <<"l", "e", "a", "k">>,
     infant |-> <<"i", "n", "f", "a", "n", "t">>,
     kid |-> <<"k", "i", "d">>,
     toddler |-> <<"t", "o", "d", "d", "l", "e", "r">>,
     son |-> <<"s", "o", "n">>,
     daughter |-> <<"d", "a", "u", "g", "h", "t", "e", "r">>]

\* conversations, lowercased and joined as the route joins the message contents
conv ==
    [dampBaby |->
        <<"r", "e", "p", "o", "r", "t", "e", "d", " ", "t", "h", "e", " ", "d", "a", "m",
          "p", " ", "3", " ", "w", "e", "e", "k", "s", " ", "a", "g", "o", ",", " ", "m",
          "y", " ", "b", "a", "b", "y", " ", "s", "l", "e", "e", "p", "s", " ", "i", "n",
          " ", "t", "h", "a", "t", " ", "r", "o", "o", "m">>,
     boiler |->
        <<"t", "h", "e", " ", "b", "o", "i", "l", "e", "r", " ", "i", "s", " ", "b", "r",
          "o", "k", "e", "n">>,
     noise |->
        <<"n", "o", "i", "s", "e", " ", "a", "t", " ", "n", "i", "g", "h", "t">>,
     child |->
        <<"m", "y", " ", "c", "h", "i", "l", "d", " ", "i", "s", " ", "i", "l", "l">>,
     hello |->
        <<"h", "e", "l", "l", "o">>,
     called |->
        <<"i", " ", "c", "a", "l", "l", "e", "d", " ", "a", "b", "o", "u", "t", " ", "i",
          "t", " ", "2", " ", "d", "a", "y", "s", " ", "a", "g", "o", ".", " ", "s", "t",
          "i", "l", "l", " ", "c", "o", "l", "d">>,
     months |->
        <<"w", "e", " ", "t", "o", "l", "d", " ", "t", "h", "e", "m", " ", "i", "n", " ",
          "w", "r", "i", "t", "i", "n", "g", ".", " ", "t", "h", "e", "n", " ", "a", "g",
          "a", "i", "n", " ", "2", " ", "m", "o", "n", "t", "h", "s", " ", "a", "g", "o">>,
     twice |->
        <<"w", "e", " ", "t", "o", "l", "d", " ", "t", "h", "e", "m", " ", "i", "n", " ",
          "w", "r", "i", "t", "i", "n", "g", ".", " ", "i", " ", "c", "a", "l", "l", "e",
          "d", " ", "a", "b", "o", "u", "t", " ", "i", "t", " ", "2", " ", "d", "a", "y",
          "s", " ", "a", "g", "o", ".", " ", "a", "n", "d", " ", "a", "g", "a", "i", "n",
          " ", "3", " ", "w", "e", "e", "k", "s", " ", "a", "g", "o">>,
     dampLeak |->
        <<"d", "a", "m", "p", " ", "f", "r", "o", "m", " ", "t", "h", "e", " ", "l", "e",
          "a", "k", ",", " ", "a", "n", "d", " ", "t", "h", "e", " ", "b", "o", "i", "l",
          "e", "r", " ", "i", "s", " ", "b", "r", "o", "k", "e", "n">>]

Conversations ==
    {conv.dampBaby, conv.boiler, conv.noise, conv.child, conv.hello, conv.called, conv.months,
     conv.twice, conv.dampLeak}

\* the conversations retrievals are run for
SearchTexts == {conv.dampBaby, conv.hello, conv.child, conv.boiler, conv.noise}

(* ---------------------- legal knowledge retrieval ---------------------- *)
\* match_count of a cross-reference search
AuxMatchCount == 3

\* results.slice(0, limit + 8)
AuxAllowance == 8

DocIds == 1..MaxId

\* what one call of match_documents can return for match_count = count: no row, or
\* count rows of consecutive ids that start at id 1 or at an id of the form 3k + 2, so
\* that two answers can overlap, can be disjoint, and can together exceed limit + 8
Matches(count) ==
    UNION {{[a \in 1..n |-> first + a - 1] :
               first \in {f \in 1..(MaxId - n + 1) : f = 1 \/ f % 3 = 2}} :
              n \in {0, Min(count, MaxId)}}

\* the row with this id as the primary search or as a cross-reference search returned
\* it (the two differ in the similarity they carry)
Hit(id, from) == [id |-> id, from |-> from]

RECURSIVE Hits(_, _)
Hits(l, from) ==
    IF l = <<>> THEN <<>> ELSE <<Hit(Head(l), from)>> \o Hits(Tail(l), from)

Ids(docs) == [a \in 1..Len(docs) |-> docs[a].id]


\* the inputs of the cross-reference embedding requests, by group
queries ==
    [core |-> <<"Housing Ombudsman Code", "Section 11", "Homes Fitness Human Habitation">>,
     damp |-> <<"Awaab's Law", "HHSRS hazards", "Housing Act 1985 Section 9A">>,
     repair |-> <<"repair covenants", "fitness standard repair notice", "Defective Premises">>,
     heating |-> <<"HHSRS excess cold", "Section 11 heating installations">>,
     noise |-> <<"quiet enjoyment", "Housing Act 1996 antisocial behaviour">>,
     closing |-> <<"Ombudsman compensation remedies", "Regulator Consumer Standards">>]

\* the queries selected by the damp, repair, heating and noise words alone
crossReferenceSearchesByIssueWords(combinedText) ==
    queries.core
    \o (IF \/ includes(combinedText, kw.damp) \/ includes(combinedText, kw.mould)
           \/ includes(combinedText, kw.condensation)
        THEN queries.damp ELSE <<>>)
    \o (IF \/ includes(combinedText, kw.repair) \/ includes(combinedText, kw.maintenance)
           \/ includes(combinedText, kw.broken)
        THEN queries.repair ELSE <<>>)
    \o (IF \/ includes(combinedText, kw.heating) \/ includes(combinedText, kw.boiler)
           \/ includes(combinedText, kw.cold)
        THEN queries.heating ELSE <<>>)
    \o (IF \/ includes(combinedText, kw.noise) \/ includes(combinedText, kw.antisocial)
           \/ includes(combinedText, kw.neighbour)
        THEN queries.noise ELSE <<>>)
    \o queries.closing

\* the queries pushed on crossReferenceSearches for a combined text
crossReferenceSearches(combinedText) ==
    queries.core
    \o (IF \/ includes(combinedText, kw.damp) \/ includes(combinedText, kw.mould)
           \/ includes(combinedText, kw.mold) \/ includes(combinedText, kw.condensation)
           \/ includes(combinedText, kw.baby) \/ includes(combinedText, kw.child)
        THEN queries.damp ELSE <<>>)
    \o (IF \/ includes(combinedText, kw.repair) \/ includes(combinedText, kw.maintenance)
           \/ includes(combinedText, kw.broken)
        THEN queries.repair ELSE <<>>)
    \o (IF \/ includes(combinedText, kw.heating) \/ includes(combinedText, kw.boiler)
           \/ includes(combinedText, kw.cold)
        THEN queries.heating ELSE <<>>)
    \o (IF \/ includes(combinedText, kw.noise) \/ includes(combinedText, kw.antisocial)
           \/ includes(combinedText, kw.neighbour)
        THEN queries.noise ELSE <<>>)
    \o queries.closing

\* the merge without the filter on the ids already held
mergeAll(results, crossRefData) == results \o crossRefData

\* the merge that puts the new rows in front of the rows already held
mergeInFront(results, crossRefData) ==
    LET existingIds == SeqSet(Ids(results))
        fresh(doc) == doc.id \notin existingIds
    IN  SelectSeq(crossRefData, fresh) \o results

\* results = [...results, ...crossRefData.filter(doc => !existingIds.has(doc.id))]
mergeNew(results, crossRefData) ==
    LET existingIds == SeqSet(Ids(results))
        fresh(doc) == doc.id \notin existingIds
    IN  results \o SelectSeq(crossRefData, fresh)

\* history: the first search that returned each id, and the ids a merge filtered out
Seen(l, from) ==
    LET known == {h.id : h \in search.firstHits}
    IN  [firstHits |-> search.firstHits
                         \cup {Hit(l[a], from) : a \in {b \in 1..Len(l) : l[b] \notin known}},
         dropped |-> search.dropped \cup (known \cap SeqSet(l))]

\* return [] of the error branch and of the catch clause
ReturnEmpty(event, failed) ==
    search' = [search EXCEPT !.pc = "returned", !.returned = <<>>,
                             !.log = Append(@, event),
                             !.storeErrors = @ \cup failed]

\* searchLegalKnowledge(query, conversationContext, limit) is called
SearchCall ==
    /\ search.pc = "idle"
    /\ \E text \in SearchTexts, limit \in {1, MaxLimit} :
          search' = [IdleSearch EXCEPT !.pc = "primaryEmbedding", !.text = text,
                                       !.limit = limit]
    /\ UNCHANGED <<cfg, pdfEnabled, srcs, store, runs, hist, arg, ret, chat>>

\* await openai.embeddings.create for the search text
PrimaryEmbedding ==
    /\ search.pc = "primaryEmbedding"
    /\ \E outcome \in {"ok", "rejected"} :
          IF outcome = "ok"
          THEN search' = [search EXCEPT !.pc = "primarySearch"]
          ELSE ReturnEmpty("Legal search failed", {})
    /\ UNCHANGED <<cfg, pdfEnabled, srcs, store, runs, hist, arg, ret, chat>>

\* await supabase.rpc('match_documents') of the primary search; on data, the
\* cross-reference embedding requests are all created before the next await
PrimarySearch ==
    /\ search.pc = "primarySearch"
    /\ \/ \E data \in Matches(search.limit) :
             LET seen == Seen(data, "primary")
             IN  search' = [search EXCEPT
                    !.pc = "awaitAll",
                    !.results = Hits(data, "primary"),
                    !.crossReferenceSearches = crossReferenceSearches(search.text),
                    !.firstHits = seen.firstHits,
                    !.dropped = seen.dropped]
       \/ ReturnEmpty("Legal search error", {"primary"})
    /\ UNCHANGED <<cfg, pdfEnabled, srcs, store, runs, hist, arg, ret, chat>>

\* one of the pending embedding requests of the cross-reference queries settles; a
\* rejection rejects Promise.all and lands in the catch clause
EmbeddingSettles ==
    /\ search.pc = "awaitAll"
    /\ search.fulfilled < Len(search.crossReferenceSearches)
    /\ \E outcome \in {"ok", "rejected"} :
          IF outcome = "ok"
          THEN search' = [search EXCEPT !.fulfilled = @ + 1]
          ELSE ReturnEmpty("Legal search failed", {})
    /\ UNCHANGED <<cfg, pdfEnabled, srcs, store, runs, hist, arg, ret, chat>>

\* await Promise.all(crossReferenceSearches) resumes with every embedding
AllFulfilled ==
    /\ search.pc = "awaitAll"
    /\ search.fulfilled = Len(search.crossReferenceSearches)
    /\ search' = [search EXCEPT !.pc = "crossReference", !.j = 1]
    /\ UNCHANGED <<cfg, pdfEnabled, srcs, store, runs, hist, arg, ret, chat>>

\* one iteration of the for loop: await the search of embedding j, merge its rows;
\* only `data` is read from the answer, so an error leaves results as they are
CrossReferenceSearch ==
    /\ search.pc = "crossReference"
    /\ search.j <= Len(search.crossReferenceSearches)
    /\ \/ \E crossRefData \in Matches(AuxMatchCount) :
             LET seen == Seen(crossRefData, "crossReference")
             IN  search' = [search EXCEPT
                    !.results = mergeNew(@, Hits(crossRefData, "crossReference")),
                    !.j = @ + 1,
                    !.firstHits = seen.firstHits,
                    !.dropped = seen.dropped]
       \/ search' = [search EXCEPT !.j = @ + 1, !.storeErrors = @ \cup {"auxiliary"}]
    /\ UNCHANGED <<cfg, pdfEnabled, srcs, store, runs, hist, arg, ret, chat>>

\* return results.slice(0, limit + 8)
ReturnResults ==
    /\ search.pc = "crossReference"
    /\ search.j > Len(search.crossReferenceSearches)
    /\ search' = [search EXCEPT
          !.pc = "returned",
          !.returned = jsSlice(search.results, 0, search.limit + AuxAllowance)]
    /\ UNCHANGED <<cfg, pdfEnabled, srcs, store, runs, hist, arg, ret, chat>>

InitRetrieve ==
    /\ cfg = [size |-> MaxChunkSize, overlap |-> 0, batch |-> MaxBatchSize, minLen |-> MaxMinLen]
    /\ pdfEnabled = TRUE
    /\ srcs = [r \in Runs |-> <<>>]
    /\ store = <<>>
    /\ runs = [r \in Runs |-> IdleRun]
    /\ hist = [r \in Runs |-> NoHist]
    /\ arg = NoArg
    /\ ret = NoRet
    /\ search = IdleSearch
    /\ chat = IdleChat

NextRetrieve ==
    \/ SearchCall
    \/ PrimaryEmbedding
    \/ PrimarySearch
    \/ EmbeddingSettles
    \/ AllFulfilled
    \/ CrossReferenceSearch
    \/ ReturnResults

\* one call of searchLegalKnowledge by the chat route
SpecRetrieve == InitRetrieve /\ [][NextRetrieve]_vars

(* --------------------- chat component and /api/chat -------------------- *)
\* A message is its role, the length of its content, the language detectUserLang
\* answers for its content, and whether its content starts with the translated banner.
Msg(role, length, lang, banner) ==
    [role |-> role, length |-> length, lang |-> lang, banner |-> banner]

\* the user's messages: a short one and one longer than the window of the route, in
\* English or in another language
UserMessages == {Msg("user", length, lang, FALSE) : length \in {20, 9001}, lang \in {"en", "ro"}}

\* the lengths of what the stream carries: the banner, the model's text, the error text
chunkLength == [banner |-> 400, delta |-> 200, error |-> 30]

\* the loop of windowMessages from index i down, total being the length counted so far
RECURSIVE windowFrom(_, _, _, _)
windowFrom(messages, i, total, maxChars) ==
    IF i < 1
    THEN <<>>
    ELSE IF total + messages[i].length > maxChars
         THEN <<messages[i]>>
         ELSE windowFrom(messages, i - 1, total + messages[i].length, maxChars)
              \o <<messages[i]>>

\* windowMessages(messages, maxChars = 9000)
windowMessages(messages) == windowFrom(messages, Len(messages), 0, 9000)

\* detectUserLang(latestUserText(history)): English for no text
detectUserLang(history) ==
    With({a \in 1..Len(history) : history[a].role = "user"}, LAMBDA users :
        IF users = {} THEN "en"
        ELSE history[CHOOSE a \in users : \A b \in users : b <= a].lang)

\* !isEnglish && assistantCount === 0
shouldPrependBanner(history) ==
    /\ detectUserLang(history) # "en"
    /\ Cardinality({a \in 1..Len(history) : history[a].role = "assistant"}) = 0

\* the streams POST can answer a chat-phase request with: the banner when it is due,
\* then the model's text, the error text taking the place of what failed
POST(messages) ==
    IF shouldPrependBanner(windowMessages(messages))
    THEN {<<"banner", "delta">>, <<"banner", "error">>, <<"error">>}
    ELSE {<<"delta">>, <<"error">>}

\* the handler ends on one of its three exits: both flags reset
Release(messages) ==
    chat' = [chat EXCEPT !.pc = "idle", !.isStreaming = FALSE, !.isSending = FALSE,
                         !.messages = messages]

\* sendWithPhase(false) up to its fetch; it returns at once while a flag is set
sendWithPhase ==
    /\ ~(chat.isStreaming \/ chat.isSending)
    /\ chat.sends < MaxSends
    /\ \E user \in UserMessages :
          With(Append(chat.messages, user), LAMBDA nextMessages :
              chat' = [chat EXCEPT
                 !.pc = "fetch", !.isSending = TRUE, !.isStreaming = TRUE,
                 !.messages = Append(nextMessages, Msg("assistant", 0, "en", FALSE)),
                 !.request = nextMessages,
                 !.holderIndex = Len(nextMessages) + 1,
                 !.stream = <<>>,
                 !.sends = @ + 1])
    /\ UNCHANGED <<cfg, pdfEnabled, srcs, store, runs, hist, arg, ret, search>>

\* await fetch('/api/chat') settles: rejected, answered with an error status, or
\* answered with a stream
FetchSettles ==
    /\ chat.pc = "fetch"
    /\ \/ \E outcome \in {"rejected", "not_ok"} :
             Release([chat.messages EXCEPT
                         ![chat.holderIndex] = Msg("assistant", chunkLength.error, "en", FALSE)])
       \/ \E stream \in POST(chat.request) :
             chat' = [chat EXCEPT !.pc = "read", !.stream = stream]
    /\ UNCHANGED <<cfg, pdfEnabled, srcs, store, runs, hist, arg, ret, search>>

\* await reader.read() settles: with a chunk, which is added to the placeholder; with
\* done, after which the flags are reset; or rejected, which ends the handler there
ReaderRead ==
    /\ chat.pc = "read"
    /\ \/ /\ chat.stream # <<>>
          /\ With(chat.messages[chat.holderIndex], LAMBDA holder :
                chat' = [chat EXCEPT
                   !.stream = Tail(@),
                   !.messages[chat.holderIndex] =
                       Msg("assistant", holder.length + chunkLength[Head(chat.stream)], "en",
                           holder.banner \/ Head(chat.stream) = "banner")])
       \/ /\ chat.stream = <<>>
          /\ Release(chat.messages)
       \/ chat' = [chat EXCEPT !.pc = "idle"]
    /\ UNCHANGED <<cfg, pdfEnabled, srcs, store, runs, hist, arg, ret, search>>

InitChat ==
    /\ cfg = [size |-> MaxChunkSize, overlap |-> 0, batch |-> MaxBatchSize, minLen |-> MaxMinLen]
    /\ pdfEnabled = TRUE
    /\ srcs = [r \in Runs |-> <<>>]
    /\ store = <<>>
    /\ runs = [r \in Runs |-> IdleRun]
    /\ hist = [r \in Runs |-> NoHist]
    /\ arg = NoArg
    /\ ret = NoRet
    /\ search = IdleSearch
    /\ chat = IdleChat

NextChat ==
    \/ sendWithPhase
    \/ FetchSettles
    \/ ReaderRead

\* one conversation in the chat component; a pending fetch and a pending read settle
SpecChat == InitChat /\ [][NextChat]_vars /\ WF_vars(FetchSettles) /\ WF_vars(ReaderRead)

(* --------------------------- date extraction --------------------------- *)

\* the alternatives of the relative patterns and of the date patterns
patternWords ==
    [units |-> <<<<"w", "e", "e", "k">>, <<"m", "o", "n", "t", "h">>,
                <<"d", "a", "y">>, <<"y", "e", "a", "r">>>>,
     ago |-> <<"a", "g", "o">>,
     verbs |-> {<<"r", "e", "p", "o", "r", "t", "e", "d">>, <<"t", "o", "l", "d">>,
                <<"c", "o", "n", "t", "a", "c", "t", "e", "d">>, <<"c", "a", "l", "l", "e", "d">>,
                <<"e", "m", "a", "i", "l", "e", "d">>,
                <<"c", "o", "m", "p", "l", "a", "i", "n", "e", "d">>},
     firstWords |-> {<<"f", "i", "r", "s", "t">>, <<"i", "n", "i", "t", "i", "a", "l", "l", "y">>,
                     <<"o", "r", "i", "g", "i", "n", "a", "l", "l", "y">>},
     firstVerbs |-> {<<"r", "e", "p", "o", "r", "t", "e", "d">>, <<"c", "o", "n", "t", "a", "c", "t", "e", "d">>,
                     <<"t", "o", "l", "d">>},
     prepositions |-> {<<"o", "n">>, <<"i", "n">>, <<"a", "b", "o", "u", "t">>},
     months |-> {<<"j", "a", "n", "u", "a", "r", "y">>, <<"f", "e", "b", "r", "u", "a", "r", "y">>,
                 <<"m", "a", "r", "c", "h">>, <<"a", "p", "r", "i", "l">>, <<"m", "a", "y">>,
                 <<"j", "u", "n", "e">>, <<"j", "u", "l", "y">>, <<"a", "u", "g", "u", "s", "t">>,
                 <<"s", "e", "p", "t", "e", "m", "b", "e", "r">>, <<"o", "c", "t", "o", "b", "e", "r">>,
                 <<"n", "o", "v", "e", "m", "b", "e", "r">>, <<"d", "e", "c", "e", "m", "b", "e", "r">>}]

Digits == <<"0", "1", "2", "3", "4", "5", "6", "7", "8", "9">>
IsDigit(c) == c \in SeqSet(Digits)
IsSpace(c) == c = " "
digitValue(c) == (CHOOSE v \in 1..10 : Digits[v] = c) - 1

MinOf(S) == CHOOSE x \in S : \A y \in S : x <= y

\* parseInt of a run of digits
RECURSIVE parseInt(_)
parseInt(digits) ==
    IF digits = <<>> THEN 0
    ELSE 10 * parseInt(SubSeq(digits, 1, Len(digits) - 1)) + digitValue(digits[Len(digits)])

\* pat occurs in text at position p
startsAt(text, p, pat) ==
    /\ p >= 1
    /\ p + Len(pat) - 1 <= Len(text)
    /\ SubSeq(text, p, p + Len(pat) - 1) = pat

\* the length of the word of pats that occurs at p, 0 when none does
wordAt(text, p, pats) ==
    IF \E pat \in pats : startsAt(text, p, pat)
    THEN Len(CHOOSE pat \in pats : startsAt(text, p, pat))
    ELSE 0

\* the first position from p on that holds no digit (\d+ ends before it)
digitsEnd(text, p) == MinOf({q \in p..(Len(text) + 1) : q = Len(text) + 1 \/ ~IsDigit(text[q])})

\* the first position from p on that holds no white space (\s+ ends before it)
spacesEnd(text, p) == MinOf({q \in p..(Len(text) + 1) : q = Len(text) + 1 \/ ~IsSpace(text[q])})

\* the first position from p on that holds a full stop ([^.]+ ends before it)
sentenceEnd(text, p) == MinOf({q \in p..(Len(text) + 1) : q = Len(text) + 1 \/ text[q] = "."})

\* /(\d+)\s+units?\s+ago/ matched at p: the position after the match, 0 when it fails
relativeEnd(text, p, unit) ==
    IF p > Len(text) \/ ~IsDigit(text[p]) THEN 0
    ELSE With(digitsEnd(text, p), LAMBDA e :
         With(spacesEnd(text, e), LAMBDA q :
         With(q + Len(unit), LAMBDA r :
         With(IF r <= Len(text) /\ text[r] = "s" THEN r + 1 ELSE r, LAMBDA r2 :
         With(spacesEnd(text, r2), LAMBDA t :
         With(patternWords.ago, LAMBDA ago :
             IF q > e /\ startsAt(text, q, unit) /\ t > r2 /\ startsAt(text, t, ago)
             THEN t + Len(ago)
             ELSE 0))))))

NoMatch == [found |-> FALSE, amount |-> 0]

\* dateString.match(/(\d+)\s+units?\s+ago/i): the leftmost match and its number
relativeMatch(dateString, unit) ==
    With({p \in 1..Len(dateString) : relativeEnd(dateString, p, unit) > 0}, LAMBDA starts :
        IF starts = {} THEN NoMatch
        ELSE With(MinOf(starts), LAMBDA p :
                 [found |-> TRUE,
                  amount |-> parseInt(SubSeq(dateString, p, digitsEnd(dateString, p) - 1))]))

\* the day number of a calendar date (month 1..12), and the calendar date of a day
\* number, in the proleptic Gregorian calendar
daysFromCivil(year, month, date) ==
    LET y == IF month <= 2 THEN year - 1 ELSE year
        era == y \div 400
        yoe == y - era * 400
        mp == IF month > 2 THEN month - 3 ELSE month + 9
        doy == (153 * mp + 2) \div 5 + date - 1
        doe == yoe * 365 + yoe \div 4 - yoe \div 100 + doy
    IN  era * 146097 + doe - 719468

civilFromDays(day) ==
    LET z == day + 719468
        era == z \div 146097
        doe == z - era * 146097
        yoe == (doe - doe \div 1460 + doe \div 36524 - doe \div 146096) \div 365
        doy == doe - (365 * yoe + yoe \div 4 - yoe \div 100)
        mp == (5 * doy + 2) \div 153
        month == IF mp < 10 THEN mp + 3 ELSE mp - 9
    IN  [year |-> yoe + era * 400 + (IF month <= 2 THEN 1 ELSE 0),
         month |-> month,
         date |-> doy - (153 * mp + 2) \div 5 + 1]

\* MakeDay: the day number of year, month index (0 = January, any integer) and date,
\* a date past the end of the month running into the next
makeDay(year, monthIndex, date) ==
    daysFromCivil(year + (monthIndex \div 12), (monthIndex % 12) + 1, 1) + date - 1

\* parsed.setDate(parsed.getDate() - n)
setDateBack(d, n) == [d EXCEPT !.day = @ - n]

\* parsed.setMonth(parsed.getMonth() - n)
setMonthBack(d, n) ==
    LET c == civilFromDays(d.day)
    IN  [d EXCEPT !.day = makeDay(c.year, c.month - 1 - n, c.date)]

\* parsed.setFullYear(parsed.getFullYear() - n)
setFullYearBack(d, n) ==
    LET c == civilFromDays(d.day)
    IN  [d EXCEPT !.day = makeDay(c.year - n, c.month - 1, c.date)]

NoDate == [parsed |-> FALSE, date |-> [day |-> 0, tod |-> 0]]
Parsed(d) == [parsed |-> TRUE, date |-> d]

HasDigit(dateString) == \E p \in 1..Len(dateString) : IsDigit(dateString[p])

\* new Date(dateString) and the manual formats: each of them needs a digit, so a string
\* without one gives null.  What the engine's parser makes of a string with digits that
\* is no relative date is not modelled: the conversations of this model hand no such
\* string to parseDate (see CandidatesModelled).
absoluteDate(dateString) ==
    IF HasDigit(dateString) THEN Parsed([day |-> 0, tod |-> 0]) ELSE NoDate

\* a week counted as one day
daysOfWeeksAsDays(amount) == amount

\* amount * 7
daysOfWeeks(amount) == amount * 7

\* parseDate, with `today` = new Date() passed in
parseDate(dateString, today) ==
    With([u \in 1..4 |-> relativeMatch(dateString, patternWords.units[u])], LAMBDA match :
    With([weeks |-> match[1], months |-> match[2], days |-> match[3], years |-> match[4]],
         LAMBDA m :
        IF dateString = <<>> THEN NoDate
        ELSE IF m.weeks.found THEN Parsed(setDateBack(today, daysOfWeeks(m.weeks.amount)))
        ELSE IF m.months.found THEN Parsed(setMonthBack(today, m.months.amount))
        ELSE IF m.days.found THEN Parsed(setDateBack(today, m.days.amount))
        ELSE IF m.years.found THEN Parsed(setFullYearBack(today, m.years.amount))
        ELSE absoluteDate(dateString)))


\* timelineAnalysis = null, and a report of calculateTimelineBreaches passed for it
NoAnalysis == [given |-> FALSE, report |-> <<>>]
Analysed(report) == [given |-> TRUE, report |-> report]

\* (?:on|in|about)\s+([^.]+) tried at q: the capture, as [ok, from, upto) of the text;
\* \s+ gives its last character back to the capture when nothing else is left for it
captureAt(text, q) ==
    With(wordAt(text, q, patternWords.prepositions), LAMBDA word :
    With(q + word, LAMBDA s0 :
    With(spacesEnd(text, s0), LAMBDA s1 :
    With(IF s1 <= Len(text) /\ text[s1] # "." THEN s1
         ELSE IF s1 - s0 >= 2 THEN s1 - 1
         ELSE 0, LAMBDA from :
        IF word > 0 /\ s1 > s0 /\ from > 0
        THEN [ok |-> TRUE, from |-> from, upto |-> sentenceEnd(text, from)]
        ELSE [ok |-> FALSE, from |-> 0, upto |-> 0]))))

\* .*?(?:on|in|about)\s+([^.]+) from position p on: the lazy match, at the first q that
\* completes it
firstCapture(text, p) ==
    With([q \in p..Len(text) |-> captureAt(text, q)], LAMBDA capture :
    With({q \in p..Len(text) : capture[q].ok}, LAMBDA qs :
        IF qs = {} THEN [ok |-> FALSE, from |-> 0, upto |-> 0]
        ELSE capture[MinOf(qs)]))

\* the leftmost match of date pattern 1 from position pos on
reportedMatch(text, pos) ==
    With([p \in pos..Len(text) |-> wordAt(text, p, patternWords.verbs)], LAMBDA verb :
    With([p \in pos..Len(text) |-> firstCapture(text, p + verb[p])], LAMBDA rest :
    With({p \in pos..Len(text) : verb[p] > 0 /\ rest[p].ok}, LAMBDA ps :
        IF ps = {} THEN [ok |-> FALSE, from |-> 0, upto |-> 0]
        ELSE rest[MinOf(ps)])))

\* the position after the first verb of date pattern 2 from position p on, 0 when none
firstVerbEnd(text, p) ==
    With([q \in p..Len(text) |-> wordAt(text, q, patternWords.firstVerbs)], LAMBDA verb :
    With({q \in p..Len(text) : verb[q] > 0 /\ firstCapture(text, q + verb[q]).ok}, LAMBDA qs :
        IF qs = {} THEN 0 ELSE MinOf(qs) + verb[MinOf(qs)]))

\* the leftmost match of date pattern 2 from position pos on
firstReportedMatch(text, pos) ==
    With([p \in pos..Len(text) |-> wordAt(text, p, patternWords.firstWords)], LAMBDA word :
    With([p \in pos..Len(text) |-> firstVerbEnd(text, p + word[p])], LAMBDA verbEnd :
    With({p \in pos..Len(text) : word[p] > 0 /\ verbEnd[p] > 0}, LAMBDA ps :
        IF ps = {} THEN [ok |-> FALSE, from |-> 0, upto |-> 0]
        ELSE firstCapture(text, verbEnd[MinOf(ps)]))))

\* matchAll of date patterns 1 and 2: the captures of the successive matches
RECURSIVE reportedCandidates(_, _)
reportedCandidates(text, pos) ==
    With(reportedMatch(text, pos), LAMBDA m :
        IF ~m.ok THEN <<>>
        ELSE <<SubSeq(text, m.from, m.upto - 1)>> \o reportedCandidates(text, m.upto))

RECURSIVE firstReportedCandidates(_, _)
firstReportedCandidates(text, pos) ==
    With(firstReportedMatch(text, pos), LAMBDA m :
        IF ~m.ok THEN <<>>
        ELSE <<SubSeq(text, m.from, m.upto - 1)>> \o firstReportedCandidates(text, m.upto))

\* the stretches of the text between full stops, from position pos on
RECURSIVE sentences(_, _)
sentences(text, pos) ==
    IF pos > Len(text) THEN <<>>
    ELSE With(sentenceEnd(text, pos), LAMBDA e :
             <<SubSeq(text, pos, e - 1)>> \o sentences(text, e + 1))

hasMonthName(sentence) == \E name \in patternWords.months : includes(sentence, name)

\* \d{1,2}\/\d{1,2}\/\d{4} somewhere in the sentence
hasSlashDate(sentence) ==
    \E p \in 1..Len(sentence), a, b \in 1..2 :
        /\ p + a + b + 5 <= Len(sentence)
        /\ \A k \in p..(p + a - 1) : IsDigit(sentence[k])
        /\ sentence[p + a] = "/"
        /\ \A k \in (p + a + 1)..(p + a + b) : IsDigit(sentence[k])
        /\ sentence[p + a + b + 1] = "/"
        /\ \A k \in (p + a + b + 2)..(p + a + b + 5) : IsDigit(sentence[k])

\* the position after a match of date pattern 5 at p, 0 when it fails
relativePhraseEnd(text, p) ==
    With({relativeEnd(text, p, unit) : unit \in SeqSet(patternWords.units)} \ {0}, LAMBDA ends :
        IF ends = {} THEN 0 ELSE MinOf(ends))

\* matchAll of date pattern 5
RECURSIVE relativeCandidates(_, _)
relativeCandidates(text, pos) ==
    With([p \in pos..Len(text) |-> relativePhraseEnd(text, p)], LAMBDA end :
    With({p \in pos..Len(text) : end[p] > 0}, LAMBDA ps :
        IF ps = {} THEN <<>>
        ELSE <<SubSeq(text, MinOf(ps), end[MinOf(ps)] - 1)>>
             \o relativeCandidates(text, end[MinOf(ps)])))

\* the candidate date strings in the order the two loops visit them: the patterns in
\* the order of datePatterns, the matches of one pattern in text order
dateCandidates(conversationText) ==
    reportedCandidates(conversationText, 1)
    \o firstReportedCandidates(conversationText, 1)
    \o With(sentences(conversationText, 1), LAMBDA all :
            SelectSeq(all, hasMonthName) \o SelectSeq(all, hasSlashDate))
    \o relativeCandidates(conversationText, 1)

\* the loops without `!reportedDate` and the breaks: the last candidate that parses
RECURSIVE lastParsed(_, _)
lastParsed(candidates, today) ==
    IF candidates = <<>> THEN NoDate
    ELSE With(lastParsed(Tail(candidates), today), LAMBDA later :
             IF later.parsed THEN later ELSE parseDate(Head(candidates), today))

\* the first candidate that parses, null when none does
RECURSIVE firstParsed(_, _)
firstParsed(candidates, today) ==
    IF candidates = <<>> THEN NoDate
    ELSE With(parseDate(Head(candidates), today), LAMBDA parsed :
             IF parsed.parsed THEN parsed ELSE firstParsed(Tail(candidates), today))

\* the classification testing the repair keywords before the damp keywords
issueTypeRepairsFirst(conversationText) ==
    IF \/ includes(conversationText, kw.repair) \/ includes(conversationText, kw.leak)
       \/ includes(conversationText, kw.broken)
    THEN "repairs"
    ELSE IF \/ includes(conversationText, kw.damp) \/ includes(conversationText, kw.mould)
            \/ includes(conversationText, kw.mold)
    THEN "damp_mould"
    ELSE IF \/ includes(conversationText, kw.heating) \/ includes(conversationText, kw.boiler)
            \/ includes(conversationText, kw.cold)
    THEN "heating"
    ELSE "general"

\* Detect issue type: the if / else-if chain over conversationText.includes
issueTypeOf(conversationText) ==
    IF \/ includes(conversationText, kw.damp) \/ includes(conversationText, kw.mould)
       \/ includes(conversationText, kw.mold)
    THEN "damp_mould"
    ELSE IF \/ includes(conversationText, kw.repair) \/ includes(conversationText, kw.leak)
            \/ includes(conversationText, kw.broken)
    THEN "repairs"
    ELSE IF \/ includes(conversationText, kw.heating) \/ includes(conversationText, kw.boiler)
            \/ includes(conversationText, kw.cold)
    THEN "heating"
    ELSE "general"

childrenAffectedIn(conversationText) ==
    \E word \in {kw.child, kw.baby, kw.infant, kw.kid, kw.toddler, kw.son, kw.daughter} :
        includes(conversationText, word)

\* extractDatesFromConversation on the joined, lowercased message contents
extractDatesFromConversation(conversationText, today) ==
    [reportedDate |-> firstParsed(dateCandidates(conversationText), today),
     issueType |-> issueTypeOf(conversationText),
     childrenAffected |-> childrenAffectedIn(conversationText)]

\* the timeline step of POST: the extraction at `today`, and the breach report of a
\* reported date, computed at the later instant `now`
timelineAnalysisOf(conversationText, today, now) ==
    With(extractDatesFromConversation(conversationText, today), LAMBDA timelineInfo :
        [timelineInfo |-> timelineInfo,
         timelineAnalysis |->
            IF timelineInfo.reportedDate.parsed
            THEN Analysed(calculateTimelineBreaches(timelineInfo.reportedDate.date,
                                                    timelineInfo.issueType,
                                                    timelineInfo.childrenAffected, now))
            ELSE NoAnalysis])

\* every candidate of the conversations of the model is a relative date or has no digit
CandidatesModelled ==
    \A text \in Conversations :
        \A k \in 1..Len(dateCandidates(text)) :
            HasDigit(dateCandidates(text)[k])
            => \E u \in 1..Len(patternWords.units) :
                  relativeMatch(dateCandidates(text)[k], patternWords.units[u]).found

(* -------------------------- context formatting ------------------------ *)
\* a retrieved row as the formatter reads it: metadata.source
Doc(id, source) == [id |-> id, source |-> source]

CurrentDateLine == <<"CURRENT DATE">>

\* the lines of the breach section, the breaches numbered from 1
BreachSection(report) ==
    <<<<"CRITICAL TIMELINE BREACH ANALYSIS", report.workingDaysElapsed,
        report.calendarDaysElapsed>>>>
    \o [a \in 1..Len(report.breaches) |->
          <<"BREACH", a, report.breaches[a].regulation, report.breaches[a].requirement,
            report.breaches[a].elapsed, report.breaches[a].unit,
            IF report.breaches[a].breached THEN "BREACH" ELSE "IMPENDING",
            report.breaches[a].severity>>]
    \o <<<<"IMPORTANT: These timeline breaches must be prominently featured">>>>

\* the lines of the document section: legislation updates first, then the other rows
DocumentSection(legalDocs) ==
    LET isLegislation(doc) == doc.source = "legislation_search"
        isOther(doc) == doc.source # "legislation_search"
        legislationSources == SelectSeq(legalDocs, isLegislation)
        otherSources == SelectSeq(legalDocs, isOther)
    IN  (IF Len(legislationSources) > 0
         THEN <<<<"RECENT LEGISLATION UPDATES", Len(legislationSources)>>>>
              \o [a \in 1..Len(legislationSources) |->
                    <<"LEGISLATION UPDATE", a, legislationSources[a].id>>]
         ELSE <<>>)
        \o (IF Len(otherSources) > 0
            THEN <<<<"ESTABLISHED LEGAL KNOWLEDGE", Len(otherSources)>>>>
                 \o [a \in 1..Len(otherSources) |-> <<"LEGAL SOURCE", a, otherSources[a].id>>]
            ELSE <<>>)
        \o <<<<"USE THIS LEGAL KNOWLEDGE">>>>

\* formatLegalContext: the context as the sequence of its lines, '' as no line
formatLegalContext(legalDocs, timelineAnalysis) ==
    IF Len(legalDocs) = 0 /\ ~timelineAnalysis.given
    THEN <<>>
    ELSE <<CurrentDateLine>>
         \o (IF timelineAnalysis.given /\ timelineAnalysis.report.hasBreaches
             THEN BreachSection(timelineAnalysis.report)
             ELSE <<>>)
         \o (IF Len(legalDocs) > 0 THEN DocumentSection(legalDocs) ELSE <<>>)

(* --------------------- the functions on their own ---------------------- *)
Texts == UNION {[1..n -> Alphabet] : n \in 0..MaxTextLen}

ChunkArgs ==
    {a \in [fn : {"chunkText"}, text : Texts,
            size : 1..MaxChunkSize, overlap : 0..MaxChunkSize] : a.overlap < a.size}

ChunkValues == [source : {"s1", "s2"}, content : {"A", "B", "C"}]

DedupeArgs ==
    [fn : {"dedupe"}, chunks : UNION {[1..n -> ChunkValues] : n \in 0..MaxChunks}]

TimesOfDay == 0..(TodSlots - 1)

WorkingDaysArgs ==
    {a \in [fn : {"calculateWorkingDays"},
            startDate : [day : EnforcementDay..(EnforcementDay + 6), tod : TimesOfDay],
            endDate : [day : (EnforcementDay - 2)..(EnforcementDay + 6 + MaxSpan),
                       tod : TimesOfDay]] :
        a.endDate.day - a.startDate.day \in (0 - 2)..MaxSpan}

IssueTypes == {"damp_mould", "repairs", "heating", "general"}

BreachArgs ==
    {a \in [fn : {"calculateTimelineBreaches"},
            today : [day : (EnforcementDay - TodayWindow)..(EnforcementDay + TodayWindow),
                     tod : TimesOfDay],
            reportedDate : [day : (EnforcementDay - TodayWindow - MaxElapsed)
                                    ..(EnforcementDay + TodayWindow + 2),
                            tod : TimesOfDay],
            issueType : IssueTypes,
            childrenAffected : BOOLEAN] :
        a.today.day - a.reportedDate.day \in (0 - 2)..MaxElapsed}

DocLists ==
    UNION {[1..n -> {Doc(id, source) : id \in 1..2, source \in {"legislation_search", "guidance"}}] :
              n \in 0..MaxDocs}

\* null, and the reports of the day of enforcement for a report made that day and one
\* made 20 days before
Analyses ==
    {NoAnalysis}
    \cup {Analysed(calculateTimelineBreaches([day |-> EnforcementDay - e, tod |-> 0], t, c,
                                             [day |-> EnforcementDay, tod |-> 0])) :
             e \in {0, 20}, t \in IssueTypes, c \in BOOLEAN}

FormatArgs == [fn : {"formatLegalContext"}, legalDocs : DocLists, timelineAnalysis : Analyses]

\* the instant `lag` slots after d
After(d, lag) ==
    [day |-> d.day + ((d.tod + lag) \div TodSlots), tod |-> (d.tod + lag) % TodSlots]

\* a conversation, the instant of the extraction and the time until the breach report
TimelineArgs ==
    [fn : {"timeline"},
     text : Conversations,
     today : [day : (EnforcementDay - TodayWindow)..(EnforcementDay + TodayWindow),
              tod : TimesOfDay],
     lag : 0..1]

Return(v) ==
    /\ ~ret.done
    /\ ret' = [done |-> TRUE, value |-> v]
    /\ UNCHANGED <<cfg, pdfEnabled, srcs, store, runs, hist, arg, search, chat>>

ApplyChunkText ==
    /\ arg.fn = "chunkText"
    /\ Return(chunkText(arg.text, arg.size, arg.overlap))

ApplyDedupe ==
    /\ arg.fn = "dedupe"
    /\ Return(dedupe(arg.chunks))

ApplyWorkingDays ==
    /\ arg.fn = "calculateWorkingDays"
    /\ Return(calculateWorkingDays(arg.startDate, arg.endDate))

ApplyBreaches ==
    /\ arg.fn = "calculateTimelineBreaches"
    /\ Return(calculateTimelineBreaches(arg.reportedDate, arg.issueType,
                                        arg.childrenAffected, arg.today))

ApplyTimeline ==
    /\ arg.fn = "timeline"
    /\ Return(timelineAnalysisOf(arg.text, arg.today, After(arg.today, arg.lag)))

ApplyFormat ==
    /\ arg.fn = "formatLegalContext"
    /\ Return(formatLegalContext(arg.legalDocs, arg.timelineAnalysis))

InitPure ==
    /\ cfg = [size |-> MaxChunkSize, overlap |-> 0, batch |-> MaxBatchSize, minLen |-> MaxMinLen]
    /\ pdfEnabled = TRUE
    /\ srcs = [r \in Runs |-> <<>>]
    /\ store = <<>>
    /\ runs = [r \in Runs |-> IdleRun]
    /\ hist = [r \in Runs |-> NoHist]
    /\ arg \in ChunkArgs \cup DedupeArgs \cup WorkingDaysArgs \cup BreachArgs \cup FormatArgs
                 \cup TimelineArgs
    /\ ret = NoRet
    /\ search = IdleSearch
    /\ chat = IdleChat

NextPure ==
    \/ ApplyChunkText
    \/ ApplyDedupe
    \/ ApplyWorkingDays
    \/ ApplyBreaches
    \/ ApplyFormat
    \/ ApplyTimeline

SpecPure == InitPure /\ [][NextPure]_vars

\* the script started once under any settings, valid or not
InitConfig ==
    /\ cfg \in AllSettings
    /\ \E l \in SourceLists : srcs = [r \in Runs |-> l]
    /\ InitRuns

NextConfig ==
    \/ StartOnce(1)
    \/ FetchSource(1)
    \/ ChunkLoopIter(1)
    \/ Dedupe(1)
    \/ Embed(1)
    \/ Upsert(1)
    \/ Finish(1)

SpecConfig == InitConfig /\ [][NextConfig]_vars

(* ====================== properties of the ingestion ==================== *)
ContentSet(table) == {table[j].content : j \in 1..Len(table)}
NoDup(table) == \A j, l \in 1..Len(table) : table[j].content = table[l].content => j = l

\* C1: when run() is invoked again after an invocation that ended, the source texts
\* being unchanged and no external call having failed in any invocation so far, the
\* store at the end of the later invocation has the same set of content values and the
\* same number of rows as at the end of the earlier one, and no content has two rows.
IdempotentIngestion ==
    (/\ runs[1].pc = "done"
     /\ hist[1].prev.ended
     /\ hist[1].prev.clean
     /\ hist[1].failures = 0)
    => /\ ContentSet(store) = ContentSet(hist[1].prev.store)
       /\ Len(store) = Len(hist[1].prev.store)
       /\ NoDup(store)

\* a second invocation ended without failure over a store the first one filled
IdempotentIngestionWitness ==
    /\ runs[1].pc = "done"
    /\ runs[1].n = 2
    /\ hist[1].prev.ended
    /\ hist[1].prev.clean
    /\ hist[1].failures = 0
    /\ Len(hist[1].prev.store) >= 3
    /\ hist[1].written = ContentSet(store)

\* C2: with two executions of run() interleaved in any order over overlapping source
\* lists, the store never holds two rows with the same content.
NoDuplicateContent == NoDup(store)

\* both executions are in their batch loops and each has already written, by its own
\* upsert, a content the other has written too
NoDuplicateContentWitness ==
    /\ runs[1].pc \in {"embed", "upsert"}
    /\ runs[2].pc \in {"embed", "upsert"}
    /\ srcs[1] # srcs[2]
    /\ hist[1].written \cap hist[2].written # {}
    /\ Len(store) >= 3

\* the sources of run r whose fetch and extraction gave a text long enough to chunk
Chunked(r) ==
    {u \in SeqSet(srcs[r]) :
        /\ u \notin hist[r].failedSources
        /\ ~PdfSkipped(u)
        /\ Len(Page(u)) >= cfg.minLen}

RECURSIVE ChunksOfSources(_, _)
ChunksOfSources(list, ok) ==
    IF list = <<>> THEN <<>>
    ELSE (IF Head(list) \in ok
          THEN Tagged(Head(list), chunkText(Page(Head(list)), cfg.size, cfg.overlap))
          ELSE <<>>) \o ChunksOfSources(Tail(list), ok)

\* C3: a source whose fetch or extraction fails is logged and skipped; once the source
\* loop is over every source of the list has been visited and fetched, the accumulated
\* chunks are those of all the sources that did not fail, earlier and later ones alike,
\* in list order; and when the run ends each of them has gone into an embedding request.
SourceFailureIsolated ==
    /\ \A u \in hist[1].failedSources :
          \E j \in 1..Len(runs[1].log) :
              /\ runs[1].log[j][1] = "failed"
              /\ runs[1].log[j][2] = u
    /\ runs[1].pc \in {"embed", "upsert", "done"} =>
          /\ runs[1].k = Len(srcs[1]) + 1
          /\ \A u \in SeqSet(srcs[1]) : ~PdfSkipped(u) => u \in hist[1].fetched
          /\ runs[1].allChunks = ChunksOfSources(srcs[1], Chunked(1))
    /\ runs[1].pc = "done" =>
          \A c \in SeqSet(Contents(runs[1].allChunks)) : c \in hist[1].requested

\* a run ended in which the second of three sources failed, the first and the third
\* were chunked, and their chunks were sent for embedding
SourceFailureIsolatedWitness ==
    /\ runs[1].pc = "done"
    /\ Len(srcs[1]) = 3
    /\ hist[1].failedSources = {srcs[1][2]}
    /\ {srcs[1][1], srcs[1][3]} \subseteq Chunked(1)
    /\ \E j, l \in 1..Len(runs[1].allChunks) :
          /\ runs[1].allChunks[j].source = srcs[1][1]
          /\ runs[1].allChunks[l].source = srcs[1][3]
          /\ {runs[1].allChunks[j].content, runs[1].allChunks[l].content}
                \subseteq hist[1].requested

\* the offsets of the batches of run r, and the contents of the batch at offset i
BatchOffsets(r) == {i \in 0..Len(runs[r].uniqueChunks) - 1 : i % cfg.batch = 0}
BatchContents(r, i) ==
    SeqSet(Contents(jsSlice(runs[r].uniqueChunks, i, i + cfg.batch)))

\* C4: no content of a batch whose embedding call failed is written by the run; every
\* batch before and after it has had its embedding requested by the time the run ends,
\* and its upsert issued unless its own embedding failed; and what the run has stored
\* stays in the store.
EmbeddingFailureIsolated ==
    /\ \A i \in hist[1].failedBatches :
          /\ BatchContents(1, i) \cap hist[1].written = {}
          /\ i \notin hist[1].upsertCalls
    /\ runs[1].pc = "done" =>
          \A i \in BatchOffsets(1) :
              /\ BatchContents(1, i) \subseteq hist[1].requested
              /\ i \in hist[1].failedBatches \/ i \in hist[1].upsertCalls
    /\ hist[1].written \subseteq ContentSet(store)

\* a first invocation ended with three or more batches, the embedding of a middle one
\* failed, and the batches before and after it are in the store
EmbeddingFailureIsolatedWitness ==
    /\ runs[1].pc = "done"
    /\ runs[1].n = 1
    /\ \E i \in hist[1].failedBatches :
          /\ BatchContents(1, i) \cap ContentSet(store) = {}
          /\ \E a, b \in BatchOffsets(1) :
                /\ a < i
                /\ i < b
                /\ BatchContents(1, a) \cup BatchContents(1, b) \subseteq hist[1].written

(* ================== properties of the pure functions =================== *)
\* the first `step` characters of a chunk, or the whole chunk when it is shorter
Advance(chunk, step) == SubSeq(chunk, 1, Min(Len(chunk), step))

RECURSIVE ConcatAdvances(_, _)
ConcatAdvances(chunks, step) ==
    IF chunks = <<>> THEN <<>>
    ELSE Advance(Head(chunks), step) \o ConcatAdvances(Tail(chunks), step)

\* C5: for every text, size S and overlap O < S, the first S - O characters of each
\* chunk of chunkText (the whole chunk when it is shorter), concatenated in order, are
\* the text.
ChunkCoverage ==
    (ret.done /\ arg.fn = "chunkText")
    => ConcatAdvances(ret.value, arg.size - arg.overlap) = arg.text

\* three or more overlapping chunks, the last shorter than the window
ChunkCoverageWitness ==
    /\ ret.done
    /\ arg.fn = "chunkText"
    /\ arg.overlap > 0
    /\ Len(ret.value) >= 3
    /\ Len(ret.value[Len(ret.value)]) < arg.size
    /\ ConcatAdvances(ret.value, arg.size - arg.overlap) = arg.text
    /\ SeqSet(arg.text) = Alphabet

\* C6 as stated: every non-empty text shorter than the chunk size gives exactly one
\* chunk, the whole text.
SingleChunkBelowSize ==
    (ret.done /\ arg.fn = "chunkText" /\ 0 < Len(arg.text) /\ Len(arg.text) < arg.size)
    => ret.value = <<arg.text>>

\* C6 amended: a non-empty text no longer than the advance (size minus overlap) gives
\* exactly one chunk, the whole text; a text longer than the advance and shorter than
\* the size gives the whole text as its first chunk, followed by further chunks.
SingleChunkWithinAdvance ==
    (ret.done /\ arg.fn = "chunkText" /\ 0 < Len(arg.text) /\ Len(arg.text) < arg.size)
    => /\ Len(ret.value) >= 1
       /\ ret.value[1] = arg.text
       /\ Len(arg.text) <= arg.size - arg.overlap => ret.value = <<arg.text>>
       /\ Len(arg.text) > arg.size - arg.overlap => Len(ret.value) >= 2

\* a text shorter than the window and within the advance of an overlapping chunker
SingleChunkWithinAdvanceWitness ==
    /\ ret.done
    /\ arg.fn = "chunkText"
    /\ arg.overlap > 0
    /\ 1 < Len(arg.text)
    /\ Len(arg.text) < arg.size
    /\ Len(arg.text) <= arg.size - arg.overlap
    /\ ret.value = <<arg.text>>

\* C7 as stated: under settings whose overlap is not below the size, no source is
\* fetched and the loop of chunkText is never entered.
ConfigValidatedAtStart ==
    cfg.overlap >= cfg.size
    => /\ hist[1].fetched = {}
       /\ runs[1].pc # "chunkLoop"

RECURSIVE FirstOccurrences(_)
FirstOccurrences(q) ==
    IF q = <<>> THEN <<>>
    ELSE LET front == FirstOccurrences(SubSeq(q, 1, Len(q) - 1))
             last == q[Len(q)]
         IN  IF last \in SeqSet(front) THEN front ELSE Append(front, last)

\* C8: the de-duplication step returns one chunk per distinct content, in the order
\* of the first occurrence of each content in its input.
DedupeFirstOccurrenceOrder ==
    (ret.done /\ arg.fn = "dedupe")
    => Contents(ret.value) = FirstOccurrences(Contents(arg.chunks))

\* contents A, B, A, C give A, B, C
DedupeFirstOccurrenceOrderWitness ==
    /\ ret.done
    /\ arg.fn = "dedupe"
    /\ Contents(arg.chunks) = <<"A", "B", "A", "C">>
    /\ Contents(ret.value) = <<"A", "B", "C">>

IsWeekday(day) == (day + 4) % 7 \notin {0, 6}

\* C9 as stated: for start not later than end, calculateWorkingDays returns the number
\* of days from the day of start to the day of end, both included, that are neither
\* Saturday nor Sunday.
WorkingDaysInclusive ==
    (ret.done /\ arg.fn = "calculateWorkingDays" /\ Time(arg.startDate) <= Time(arg.endDate))
    => ret.value =
          Cardinality({d \in arg.startDate.day..arg.endDate.day : IsWeekday(d)})

AckRecords(report) ==
    {j \in 1..Len(report.breaches) : report.breaches[j].requirement = AckRequirement}

\* C10: the report of calculateTimelineBreaches holds the 'acknowledge within 5 working
\* days' record if and only if its working days elapsed exceed 5, at most once, with
\* breached = true and severity moderate.
AckBreachBoundary ==
    (ret.done /\ arg.fn = "calculateTimelineBreaches")
    => /\ AckRecords(ret.value) # {} <=> ret.value.workingDaysElapsed > 5
       /\ Cardinality(AckRecords(ret.value)) <= 1
       /\ \A j \in AckRecords(ret.value) :
             /\ ret.value.breaches[j].breached
             /\ ret.value.breaches[j].severity = "moderate"
             /\ ret.value.breaches[j].elapsed = ret.value.workingDaysElapsed

\* exactly 5 working days elapsed, counted from a Monday to the Friday of its week,
\* and no acknowledgment record
AckBreachBoundaryWitness ==
    /\ ret.done
    /\ arg.fn = "calculateTimelineBreaches"
    /\ ret.value.workingDaysElapsed = 5
    /\ arg.today.day - arg.reportedDate.day = 4
    /\ AckRecords(ret.value) = {}

HazardRecords(report) ==
    {j \in 1..Len(report.breaches) : report.breaches[j].regulation = AwaabsLaw}

\* a report on damp and mould with a child affected, 20 calendar days after the report
HazardCase ==
    /\ ret.done
    /\ arg.fn = "calculateTimelineBreaches"
    /\ arg.issueType = "damp_mould"
    /\ arg.childrenAffected
    /\ ret.value.calendarDaysElapsed = 20

\* C11 as stated: for damp_mould, a child affected and 20 calendar days elapsed, before
\* the enforcement date the report holds exactly one record, impending and not
\* breached; from the enforcement date on its hazard-law record is critical and breached.
HazardGatingSingleRecord ==
    HazardCase
    => /\ HazardRecords(ret.value) # {}
       /\ Time(arg.today) < Time(awaabsLawEnforcementDate) =>
             /\ Len(ret.value.breaches) = 1
             /\ ret.value.breaches[1].severity = "impending"
             /\ ~ret.value.breaches[1].breached
       /\ Time(arg.today) >= Time(awaabsLawEnforcementDate) =>
             \A j \in HazardRecords(ret.value) :
                 /\ ret.value.breaches[j].severity = "critical"
                 /\ ret.value.breaches[j].breached

\* C11 amended: for damp_mould, a child affected and 20 calendar days elapsed, the report
\* holds exactly one hazard-law record, after the moderate and the serious
\* complaint-timeline records (20 calendar days are 15 working days); that record is
\* impending and not breached before the enforcement date, critical and breached from
\* the enforcement date on.
HazardGating ==
    HazardCase
    => /\ Cardinality(HazardRecords(ret.value)) = 1
       /\ Len(ret.value.breaches) = 3
       /\ ret.value.breaches[1].severity = "moderate"
       /\ ret.value.breaches[2].severity = "serious"
       /\ HazardRecords(ret.value) = {3}
       /\ ret.value.breaches[3].elapsed = 20
       /\ Time(arg.today) < Time(awaabsLawEnforcementDate) =>
             /\ ret.value.breaches[3].severity = "impending"
             /\ ~ret.value.breaches[3].breached
       /\ Time(arg.today) >= Time(awaabsLawEnforcementDate) =>
             /\ ret.value.breaches[3].severity = "critical"
             /\ ret.value.breaches[3].breached

\* the day before the enforcement date, 20 calendar days after the report: an impending
\* hazard-law record that is not breached
HazardGatingWitness ==
    /\ HazardCase
    /\ arg.today.day = EnforcementDay - 1
    /\ \E j \in HazardRecords(ret.value) :
          /\ ret.value.breaches[j].severity = "impending"
          /\ ~ret.value.breaches[j].breached

(* ===================== properties of the retrieval ===================== *)
\* C12: neither the merged results nor the list a retrieval returns ever hold two
\* entries with the same id; each returned entry is the one of the first search that
\* returned its id; and when the searches returned no more than limit + 8 distinct ids,
\* every one of them is in the list.
RetrievalMergeDedup ==
    /\ \A a, b \in 1..Len(search.results) :
          search.results[a].id = search.results[b].id => a = b
    /\ search.pc = "returned"
       => /\ \A a, b \in 1..Len(search.returned) :
                search.returned[a].id = search.returned[b].id => a = b
          /\ SeqSet(search.returned) \subseteq search.firstHits
          /\ (/\ search.j > 0
              /\ Cardinality(search.firstHits) <= search.limit + AuxAllowance)
             => SeqSet(search.returned) = search.firstHits

\* the primary search returned 1, 2, 3, a cross-reference search returned 2 and 3
\* again together with 4, and the retrieval returned 1, 2, 3, 4
RetrievalMergeDedupWitness ==
    /\ search.pc = "returned"
    /\ Ids(search.returned) = <<1, 2, 3, 4>>
    /\ \A a \in 1..3 : search.returned[a].from = "primary"
    /\ search.returned[4].from = "crossReference"
    /\ search.dropped = {2, 3}

\* C15 as stated: when a similarity search of a retrieval, primary or cross-reference,
\* answered with a store error and no embedding request failed, every search of the
\* request has been made by the time the retrieval returns, and the rows the other
\* searches returned are in the returned list.
StoreErrorIsolated ==
    (/\ search.pc = "returned"
     /\ search.storeErrors # {}
     /\ \A a \in 1..Len(search.log) : search.log[a] # "Legal search failed")
    => /\ search.j = Len(crossReferenceSearches(search.text)) + 1
       /\ Cardinality(search.firstHits) <= search.limit + AuxAllowance
          => SeqSet(search.returned) = search.firstHits

(* ================= properties of the context formatting ================ *)
\* C13 as stated: formatLegalContext called with no document and no breach report
\* returns a non-empty context that is the current-date line alone.
EmptyStateFormatting ==
    (/\ ret.done
     /\ arg.fn = "formatLegalContext"
     /\ arg.legalDocs = <<>>
     /\ ~arg.timelineAnalysis.given)
    => ret.value = <<CurrentDateLine>>

(* ==================== properties of the timeline step ================== *)
RecordsOf(report, requirement, severity) ==
    {k \in 1..Len(report.breaches) :
        /\ report.breaches[k].requirement = requirement
        /\ report.breaches[k].severity = severity
        /\ report.breaches[k].breached}

\* the conversation of the scenario, the breach report computed from the enforcement
\* date on
ScenarioCase ==
    /\ ret.done
    /\ arg.fn = "timeline"
    /\ arg.text = conv.dampBaby
    /\ Time(After(arg.today, arg.lag)) >= Time(awaabsLawEnforcementDate)

\* C14: for the conversation 'reported the damp 3 weeks ago, my baby sleeps in that
\* room' and now from the enforcement date on, the extraction gives damp_mould, children
\* affected and the instant 21 days before now as reported date, and the breach report
\* holds the critical 14-day investigation record, the moderate record when the working
\* days elapsed exceed 5 and the serious record when they exceed 10.
EndToEndScenario ==
    ScenarioCase
    => LET info == ret.value.timelineInfo
           analysis == ret.value.timelineAnalysis
       IN  /\ info.issueType = "damp_mould"
           /\ info.childrenAffected
           /\ info.reportedDate.parsed
           /\ info.reportedDate.date = [day |-> arg.today.day - 21, tod |-> arg.today.tod]
           /\ analysis.given
           /\ analysis.report.calendarDaysElapsed = 21
           /\ RecordsOf(analysis.report, InvestigateRequirement, "critical") # {}
           /\ analysis.report.workingDaysElapsed > 5
              => RecordsOf(analysis.report, AckRequirement, "moderate") # {}
           /\ analysis.report.workingDaysElapsed > 10
              => RecordsOf(analysis.report, ResponseRequirement, "serious") # {}

\* the scenario with the extraction on the eve of the enforcement date and the report
\* computed past midnight: 15 working days, and the three records
EndToEndScenarioWitness ==
    /\ ScenarioCase
    /\ arg.today.day = EnforcementDay - 1
    /\ ret.value.timelineInfo.reportedDate.date.day = EnforcementDay - 22
    /\ ret.value.timelineAnalysis.given
    /\ ret.value.timelineAnalysis.report.workingDaysElapsed = 15
    /\ Len(ret.value.timelineAnalysis.report.breaches) = 3
    /\ RecordsOf(ret.value.timelineAnalysis.report, InvestigateRequirement, "critical") # {}

(* ============== further properties of the ingestion ==================== *)
\* C16 as stated: every run of the ingestion that has started ends, a source whose
\* fetch never completes being cut off, marked failed and skipped, and the sources
\* after it processed.
RunEventuallyEnds == (runs[1].pc = "fetch") ~> (runs[1].pc = "done")

\* the rows of the table that a step wrote or replaced
Touched == {k \in 1..Len(store') : k > Len(store) \/ store'[k] # store[k]}

\* C17: every row of the store carries the embedding computed for its own content;
\* a run that is about to write holds one received embedding per chunk of its batch,
\* embedding j being that of chunk j; and a step that writes rows writes rows of the
\* batch of a run in that position, each with the embedding received for it.
RowsCarryTheirEmbedding ==
    /\ [](/\ \A k \in 1..Len(store) : store[k].embedding.of = store[k].content
          /\ \A r \in Runs : runs[r].pc = "upsert" =>
                /\ Len(runs[r].emb) = Len(Batch(r))
                /\ \A j \in 1..Len(Batch(r)) : runs[r].emb[j].of = Batch(r)[j].content)
    /\ [][\A k \in Touched :
            \E r \in Runs :
                /\ runs[r].pc = "upsert"
                /\ \E j \in 1..Len(Batch(r)) :
                    /\ j <= Len(runs[r].emb)
                    /\ store'[k].content = Batch(r)[j].content
                    /\ store'[k].embedding = runs[r].emb[j]]_vars

\* a run wrote a whole batch of two different chunks and ended
RowsCarryTheirEmbeddingWitness ==
    /\ runs[1].pc = "done"
    /\ Len(store) >= 2
    /\ \E a, b \in 1..Len(store) :
        /\ store[a].content # store[b].content
        /\ {store[a].content, store[b].content} \subseteq hist[1].written
        /\ store[a].embedding.of = store[a].content
        /\ store[b].embedding.of = store[b].content

\* the lines of the log of run r that begin with `event`
Logged(r, event) == {k \in 1..Len(runs[r].log) : runs[r].log[k][1] = event}

\* C18 as stated: a run that met a store error on an upsert ends with a report of a
\* non-zero count of skipped chunks or batches, and without the line of success.
UpsertErrorReported ==
    \A r \in Runs :
        (runs[r].pc = "done" /\ Logged(r, "upsert error") # {}) =>
            /\ \E k \in Logged(r, "skipped") : runs[r].log[k][2] > 0
            /\ Logged(r, "success") = {}

\* run r takes a step out of the given position of its batch loop
Leaves(r, pc) == runs[r].pc = pc /\ runs'[r] # runs[r]

\* the content strings of the batch of run r
BatchInputs(r) == {Batch(r)[j].content : j \in 1..Len(Batch(r))}

\* C19: a run is in its batch loop only after the loop over the sources has ended for
\* every source and with uniqueChunks the one de-duplication of the chunks of all the
\* sources together; each embedding request carries pairwise different content
\* strings none of which the run has requested before, and each upsert carries
\* content strings none of which the run has written before.
DedupeBeforeEmbedding ==
    /\ [](\A r \in Runs : runs[r].pc \in {"embed", "upsert"} =>
            /\ runs[r].k > Len(srcs[r])
            /\ runs[r].uniqueChunks = dedupe(runs[r].allChunks)
            /\ hist[r].requested \subseteq SeqSet(Contents(runs[r].allChunks)))
    /\ [][\A r \in Runs :
            /\ (Leaves(r, "embed") /\ runs[r].i < Len(runs[r].uniqueChunks)) =>
                /\ BatchInputs(r) \cap hist[r].requested = {}
                /\ Cardinality(BatchInputs(r)) = Len(Batch(r))
            /\ Leaves(r, "upsert") =>
                /\ BatchInputs(r) \cap hist[r].written = {}
                /\ Cardinality(BatchInputs(r)) = Len(Batch(r))]_vars

\* a run ended having embedded and written a content string that two of its sources hold
DedupeBeforeEmbeddingWitness ==
    /\ runs[1].pc = "done"
    /\ \E a, b \in 1..Len(runs[1].allChunks) :
        /\ runs[1].allChunks[a].content = runs[1].allChunks[b].content
        /\ runs[1].allChunks[a].source # runs[1].allChunks[b].source
        /\ runs[1].allChunks[a].content \in hist[1].requested \cap hist[1].written

\* C20 as stated: without the PDF backend a run that ended has fetched no PDF source
\* and reported none as failed, has fetched its HTML sources, and has logged the
\* unavailability of the backend once however many PDF sources it has.
PdfUnavailableLoggedOnce ==
    \A r \in Runs :
        ((~pdfEnabled) /\ runs[r].pc = "done") =>
            /\ \A u \in SeqSet(srcs[r]) :
                /\ IsPdf(u) => u \notin hist[r].fetched \cup hist[r].failedSources
                /\ (~IsPdf(u)) => u \in hist[r].fetched
            /\ Cardinality(Logged(r, "skip PDF; pdf backend unavailable")) <= 1

(* ============ further properties of the timeline and retrieval ========== *)
\* C21: the reported date of an extraction is what parseDate gives for the first
\* candidate it does not answer null for, the candidates taken pattern by pattern in
\* the order of datePatterns and match by match in text order; it is null when
\* parseDate answers null for every candidate; and the extraction always returns.
FirstParsedCandidateWins ==
    (arg.fn = "timeline" /\ ret.done) =>
        With([k \in 1..Len(dateCandidates(arg.text)) |->
                  parseDate(dateCandidates(arg.text)[k], arg.today)], LAMBDA parsed :
        With({k \in DOMAIN parsed : parsed[k].parsed}, LAMBDA ok :
            /\ ret.value.timelineInfo.reportedDate \in {NoDate} \cup SeqSet(parsed)
            /\ ok = {} => ret.value.timelineInfo.reportedDate = NoDate
            /\ ok # {} => ret.value.timelineInfo.reportedDate = parsed[MinOf(ok)]))

\* the conversation whose candidates are "writing", "it 2 days ago", "2 days ago" and
\* "3 weeks ago": the first is skipped, the second is taken, the last does not replace it
FirstParsedCandidateWinsWitness ==
    /\ arg.fn = "timeline" /\ ret.done
    /\ arg.text = conv.twice
    /\ Len(dateCandidates(arg.text)) = 4
    /\ ~parseDate(dateCandidates(arg.text)[1], arg.today).parsed
    /\ ret.value.timelineInfo.reportedDate = Parsed(setDateBack(arg.today, 2))
    /\ parseDate(dateCandidates(arg.text)[4], arg.today) = Parsed(setDateBack(arg.today, 21))

\* the records of a report that carry the given requirement, severity and flag
Records(report, requirement, severity, breached) ==
    {j \in 1..Len(report.breaches) :
        /\ report.breaches[j].requirement = requirement
        /\ report.breaches[j].severity = severity
        /\ report.breaches[j].breached = breached}

\* the rows of the rule table: whether the condition holds for the call and the
\* elapsed days of its report, and the records of the report that are the row's
RuleTable ==
    With(arg.issueType = "damp_mould" /\ arg.childrenAffected, LAMBDA vulnerable :
    With(Time(arg.today) >= Time([day |-> EnforcementDay, tod |-> 0]), LAMBDA inForce :
        <<[fires |-> ret.value.workingDaysElapsed > 5,
           records |-> Records(ret.value, AckRequirement, "moderate", TRUE)],
          [fires |-> ret.value.workingDaysElapsed > 10,
           records |-> Records(ret.value, ResponseRequirement, "serious", TRUE)],
          [fires |-> vulnerable /\ ret.value.calendarDaysElapsed > 14 /\ inForce,
           records |-> Records(ret.value, InvestigateRequirement, "critical", TRUE)],
          [fires |-> vulnerable /\ ~inForce,
           records |-> Records(ret.value, InvestigateRequirementImpending, "impending", FALSE)],
          [fires |-> arg.issueType = "heating" /\ ret.value.calendarDaysElapsed > 1,
           records |-> Records(ret.value, HeatingRequirement, "serious", TRUE)],
          [fires |-> arg.issueType = "repairs" /\ ret.value.calendarDaysElapsed > 28,
           records |-> Records(ret.value, RepairRequirement, "moderate", TRUE)]>>))

\* C22: the breach list of a report holds one record for each row of the rule table
\* whose condition holds and no other record, whichever other rows fire, and
\* hasBreaches is true exactly when the list is not empty.
RuleTableExact ==
    (ret.done /\ arg.fn = "calculateTimelineBreaches") =>
        /\ \A row \in 1..Len(RuleTable) :
              Cardinality(RuleTable[row].records) = (IF RuleTable[row].fires THEN 1 ELSE 0)
        /\ Len(ret.value.breaches) = Cardinality({row \in 1..Len(RuleTable) : RuleTable[row].fires})
        /\ ret.value.hasBreaches <=> Len(ret.value.breaches) > 0

\* damp and mould with a child affected, reported two days before a day that precedes
\* the enforcement date: the impending record is the only one and hasBreaches is true
RuleTableExactWitness ==
    /\ ret.done /\ arg.fn = "calculateTimelineBreaches"
    /\ arg.today.day < EnforcementDay
    /\ arg.today.day - arg.reportedDate.day = 2
    /\ Len(ret.value.breaches) = 1
    /\ ret.value.breaches[1].severity = "impending"
    /\ ~ret.value.breaches[1].breached
    /\ ret.value.hasBreaches

\* some word of the group occurs in the text of the call
Mentions(words) == \E word \in words : includes(arg.text, word)

\* C23: the issue type of an extraction is one of the four types, it is damp_mould
\* when the text holds a damp keyword whatever else it holds, repairs when it holds
\* a repair keyword and no damp keyword, heating when it holds a heating keyword and
\* none of the others, and general when it holds no keyword.
IssueTypePriority ==
    (arg.fn = "timeline" /\ ret.done) =>
        With(Mentions({kw.damp, kw.mould, kw.mold}), LAMBDA damp :
        With(Mentions({kw.repair, kw.leak, kw.broken}), LAMBDA repair :
        With(Mentions({kw.heating, kw.boiler, kw.cold}), LAMBDA heating :
        With(ret.value.timelineInfo.issueType, LAMBDA issueType :
            /\ issueType \in IssueTypes
            /\ damp => issueType = "damp_mould"
            /\ ((~damp) /\ repair) => issueType = "repairs"
            /\ ((~damp) /\ (~repair) /\ heating) => issueType = "heating"
            /\ ((~damp) /\ (~repair) /\ (~heating)) => issueType = "general"))))

\* a text with a damp keyword, two repair keywords and a heating keyword
IssueTypePriorityWitness ==
    /\ arg.fn = "timeline" /\ ret.done
    /\ Mentions({kw.damp}) /\ Mentions({kw.leak}) /\ Mentions({kw.broken})
    /\ Mentions({kw.boiler})
    /\ ret.value.timelineInfo.issueType = "damp_mould"

\* some word of the group occurs in the combined text of the retrieval
SearchTextHas(words) == \E word \in words : includes(search.text, word)

\* the inputs of the embedding requests the retrieval has created for its
\* cross-reference queries
Issued == SeqSet(search.crossReferenceSearches)

SelectedQueries ==
    SeqSet(queries.core) \cup SeqSet(queries.closing)
    \cup (IF SearchTextHas({kw.damp, kw.mould, kw.mold, kw.condensation, kw.baby, kw.child})
          THEN SeqSet(queries.damp) ELSE {})
    \cup (IF SearchTextHas({kw.repair, kw.maintenance, kw.broken})
          THEN SeqSet(queries.repair) ELSE {})
    \cup (IF SearchTextHas({kw.heating, kw.boiler, kw.cold})
          THEN SeqSet(queries.heating) ELSE {})
    \cup (IF SearchTextHas({kw.noise, kw.antisocial, kw.neighbour})
          THEN SeqSet(queries.noise) ELSE {})

\* a step that leaves the primary embedding or the primary search: into the return, it
\* has issued nothing; past the primary search, it has issued the selected queries
IssuesAfterPrimary ==
    /\ (search.pc \in {"primaryEmbedding", "primarySearch"} /\ search'.pc = "returned")
          => (search'.crossReferenceSearches = <<>>)
    /\ (search.pc = "primarySearch" /\ search'.pc = "awaitAll")
          => (SeqSet(search'.crossReferenceSearches) = SelectedQueries)

SearchesMade == IF search.j = 0 THEN 0 ELSE search.j - 1

\* C25 as stated: once an embedding request of the cross-reference queries has settled,
\* all of them had been created; once a cross-reference search has been awaited, all of
\* them had been started; and a row of a cross-reference search is merged into the
\* results only after every cross-reference search has completed.
FireAllAwaitAll ==
    /\ search.fulfilled > 0
          => search.crossReferenceSearches = crossReferenceSearches(search.text)
    /\ SearchesMade > 0 => SearchesMade = Len(search.crossReferenceSearches)
    /\ (\E a \in 1..Len(search.results) : search.results[a].from = "crossReference")
          => SearchesMade = Len(search.crossReferenceSearches)

\* C26 as stated: a retrieval that returned after it had issued its cross-reference
\* queries returns the rows of the primary search and of the cross-reference searches
\* that answered, up to the cap, whatever became of the other queries.
AuxiliaryFailureDropped ==
    (search.pc = "returned" /\ search.crossReferenceSearches # <<>>)
        => search.returned = jsSlice(search.results, 0, search.limit + AuxAllowance)

\* a is a prefix of b
IsPrefix(a, b) == Len(a) <= Len(b) /\ \A k \in 1..Len(a) : a[k] = b[k]

\* a step of the retrieval keeps the rows it holds where they are and appends the rows
\* of the search it made, one search after the other in the order of the queries
MergeAppends ==
    search.pc # "idle" =>
        /\ IsPrefix(search.results, search'.results)
        /\ \A a \in (Len(search.results) + 1)..Len(search'.results) :
              search'.results[a].from =
                  (IF search.pc = "primarySearch" THEN "primary" ELSE "crossReference")
        /\ search'.j \in {search.j, search.j + 1}

\* C27: a retrieval that returns through its cap (no failure logged) returns at most
\* limit + 8 rows, and they are the first limit + 8 rows of the merged list, or the
\* whole list when it is shorter; the merged list holds the rows of the primary search
\* first and then those of the cross-reference searches in the order the searches were
\* made, so every row of the primary search is among the rows returned.
ReturnedIsCappedPrefix ==
    /\ [](search.pc = "returned" =>
            /\ Len(search.returned) <= search.limit + 8
            /\ search.log = <<>> =>
                  /\ IsPrefix(search.returned, search.results)
                  /\ Len(search.returned) = Min(Len(search.results), search.limit + 8)
                  /\ \A a \in 1..Len(search.results) :
                        search.results[a].from = "primary" =>
                            /\ a <= search.limit
                            /\ a <= Len(search.returned))
    /\ [][MergeAppends]_vars

\* a retrieval with limit 1 merged ten rows, the row of the primary search first, and
\* returned the first nine of them
ReturnedIsCappedPrefixWitness ==
    /\ search.pc = "returned"
    /\ search.log = <<>>
    /\ search.limit = 1
    /\ Len(search.results) = 10
    /\ Len(search.returned) = 9
    /\ search.results[1].from = "primary"
    /\ search.returned[1] = search.results[1]

\* C29: calculateTimelineBreaches never returns a negative workingDaysElapsed; for a
\* reported date later than now it returns workingDaysElapsed = 0 and no record with
\* breached = TRUE: no record at all, or the impending hazard-law record alone.
FutureReportNeverBreached ==
    (arg.fn = "calculateTimelineBreaches" /\ ret.done) =>
        With(ret.value, LAMBDA report :
            /\ report.workingDaysElapsed >= 0
            /\ Time(arg.reportedDate) > Time(arg.today) =>
                  /\ report.workingDaysElapsed = 0
                  /\ Len(report.breaches) <= 1
                  /\ \A a \in 1..Len(report.breaches) :
                        /\ ~report.breaches[a].breached
                        /\ report.breaches[a].severity = "impending"
                        /\ report.breaches[a].regulation = AwaabsLaw)

\* now is the day before the enforcement date and the report is dated two days later,
\* a Tuesday, for damp with children: no working day elapsed, the impending record alone
FutureReportNeverBreachedWitness ==
    /\ arg.fn = "calculateTimelineBreaches"
    /\ ret.done
    /\ arg.today.day = EnforcementDay - 1
    /\ arg.reportedDate.day = arg.today.day + 2
    /\ getDay(arg.reportedDate) = 2
    /\ ret.value.workingDaysElapsed = 0
    /\ ret.value.calendarDaysElapsed < 0
    /\ Len(ret.value.breaches) = 1
    /\ ~ret.value.breaches[1].breached

\* a report dated later on the day of now, for heating: no record
FutureReportSameDayWitness ==
    /\ arg.fn = "calculateTimelineBreaches"
    /\ ret.done
    /\ arg.reportedDate.day = arg.today.day
    /\ arg.reportedDate.tod > arg.today.tod
    /\ arg.issueType = "heating"
    /\ ret.value.breaches = <<>>

(* ================ properties of the chat conversation ================== *)
\* C28 as stated, in the part that fails: while every message of the user is in a
\* language other than English, at most one assistant message of the conversation
\* carries the translated banner.
BannerAtMostOnce ==
    (\A a \in 1..Len(chat.messages) :
        chat.messages[a].role = "user" => chat.messages[a].lang # "en")
    => Cardinality({a \in 1..Len(chat.messages) :
                      chat.messages[a].role = "assistant" /\ chat.messages[a].banner}) <= 1

\* C30 as stated: a handler is under way only while both flags are set, so that no
\* second request is sent meanwhile, and whenever a flag is set both flags are
\* eventually reset.
FlagsEventuallyReset ==
    /\ [](chat.pc # "idle" => (chat.isStreaming /\ chat.isSending))
    /\ (chat.isStreaming \/ chat.isSending) ~> ~(chat.isStreaming \/ chat.isSending)

====
